---- MODULE Spec2Model ----
(***************************************************************************)
(* FinanceTracker: the entity store (MemStorage / PostgresStorage), the    *)
(* aggregation engine (generateMonthlySummary) and the request handlers    *)
(* that mutate transactions (registerRoutes).                              *)
(*                                                                         *)
(* Units.  Amounts are integers in cents: the scale of numeric(10,2), and  *)
(* a value String(n)/Number(s) carries unchanged.  Percentages are         *)
(* integers in 1/PctUnits of a percent; the durable backend keeps them at  *)
(* numeric(5,2), i.e. rounded to a multiple of PctUnits / NumericScale.    *)
(* Instants are hours since 2024-01-01T00:00Z; a stored date is the        *)
(* date-only string "yyyy-mm-dd", written as the record [y, m, d].         *)
(* Handlers of the volatile backend await only resolved promises, so one   *)
(* request runs to completion before the next starts; Spec runs requests   *)
(* one after the other on both backends.                                   *)
(***************************************************************************)
EXTENDS Integers, Sequences, FiniteSets, TLC

VARIABLES
    backend,             \* "mem" | "pg": what createStorage returned
    tz,                  \* the process's time-zone offset, hours east of UTC
    storageInstance,     \* the module-level handle of getStorage (0: null)
    instances,           \* the storage objects createStorage has constructed
    requests,            \* requests in flight: position and local variables
    users,               \* set of User records
    nextUserId,          \* next user id (MemStorage.userId / the serial of users.id)
    transactions,        \* set of Transaction records (Map values / table rows)
    monthlySummaries,    \* set of MonthlySummary records
    categoryBreakdowns,  \* set of CategoryBreakdown records
    transactionId,       \* next ids (MemStorage counters / serial columns)
    summaryId,
    breakdownId,
    clock,               \* requests handled so far; the value new Date() is read as
    last                 \* the last request and its response

vars == <<backend, tz, storageInstance, instances, requests, users, nextUserId,
          transactions, monthlySummaries, categoryBreakdowns,
          transactionId, summaryId, breakdownId, clock, last>>

----------------------------------------------------------------------------
(* Bounds of the model *)

MaxOps == 3

TimeZones == {-5, 0, 2}

D(y, m, d) == [y |-> y, m |-> m, d |-> d]

Dates == {D(2024, 3, 31), D(2024, 4, 1)}

\* undefined / null where a record is expected
Null == [null |-> TRUE]

\* null in a text column
NullText == "null"

----------------------------------------------------------------------------
(* shared/schema *)

categories == <<"Housing", "Transportation", "Food", "Utilities", "Healthcare",
                "Entertainment", "Education", "Shopping", "Income", "Other">>

Range(f) == {f[i] : i \in DOMAIN f}

TransactionTypes == {"income", "expense"}

\* numeric(5,2): two digits after the point
NumericScale == 100

\* model resolution of a percentage held as a JS number
PctUnits == 10 * NumericScale

\* userId = 1, "Using default demo user"
DemoUser == 1

----------------------------------------------------------------------------
(* JavaScript Date over date-only strings *)

IsLeap(y) == (y % 4 = 0 /\ y % 100 # 0) \/ y % 400 = 0

DaysInMonth(y, m) ==
    IF m = 2 THEN (IF IsLeap(y) THEN 29 ELSE 28)
    ELSE IF m \in {4, 6, 9, 11} THEN 30 ELSE 31

\* days of the year before the first of each month
CumulativeDaysLeap == <<0, 31, 60, 91, 121, 152, 182, 213, 244, 274, 305, 335>>

CumulativeDaysCommon == <<0, 31, 59, 90, 120, 151, 181, 212, 243, 273, 304, 334>>

DaysBeforeMonth(y, m) ==
    IF IsLeap(y) THEN CumulativeDaysLeap[m] ELSE CumulativeDaysCommon[m]

\* day number of a date of the year 2024 (the model's dates all lie in it)
DayIndex(date) == DaysBeforeMonth(date.y, date.m) + date.d - 1

\* new Date("yyyy-mm-dd"): midnight UTC of that day
ParseDate(date) == DayIndex(date) * 24

\* new Date(year, monthIndex + 1 - 1, day): midnight local time of that day
LocalMidnight(date) == DayIndex(date) * 24 - tz

DateOfDayIndex(y, n) ==
    LET m == CHOOSE k \in 1..12 :
                 /\ DaysBeforeMonth(y, k) <= n
                 /\ n < DaysBeforeMonth(y, k) + DaysInMonth(y, k)
    IN  D(y, m, n - DaysBeforeMonth(y, m) + 1)

\* toISOString().split('T')[0]: the UTC calendar day of an instant
dateToString(instant) == DateOfDayIndex(2024, instant \div 24)

\* getFullYear() / getMonth() + 1: the calendar day in local time
LocalDate(instant) == DateOfDayIndex(2024, (instant + tz) \div 24)

\* the (year, month) a handler derives from a stored date:
\* transactionDate.getFullYear(), transactionDate.getMonth() + 1
HandlerMonth(date) ==
    LET l == LocalDate(ParseDate(date)) IN [year |-> l.y, month |-> l.m]

Abs(x) == IF x < 0 THEN -x ELSE x

----------------------------------------------------------------------------
(* The store as one value, so that store operations are functions of it *)

Store ==
    [transactions       |-> transactions,
     monthlySummaries   |-> monthlySummaries,
     categoryBreakdowns |-> categoryBreakdowns,
     transactionId      |-> transactionId,
     summaryId          |-> summaryId,
     breakdownId        |-> breakdownId]

\* new MemStorage() / the empty tables
EmptyStore ==
    [transactions       |-> {},
     monthlySummaries   |-> {},
     categoryBreakdowns |-> {},
     transactionId      |-> 1,
     summaryId          |-> 1,
     breakdownId        |-> 1]

Has(body, field) == field \in DOMAIN body

\* n / d rounded to the nearest integer, halves up (n >= 0, d > 0)
RoundDiv(n, d) == (n \div d) + (IF 2 * (n % d) >= d THEN 1 ELSE 0)

----------------------------------------------------------------------------
(* IStorage: users.  The demo user is created when the store is, and no    *)
(* route creates another.                                                   *)

\* createUser({ username: "demo", password: "password" })
DemoInsertUser == [username |-> "demo", password |-> "password"]

\* the users of a store that createUser was called on once, for the demo user
DemoUsers == {[id |-> DemoUser, username |-> "demo", password |-> "password"]}

getUser(id) ==
    IF \E u \in users : u.id = id
    THEN CHOOSE u \in users : u.id = id
    ELSE Null

getUserByUsername(username) ==
    IF \E u \in users : u.username = username
    THEN CHOOSE u \in users : u.username = username
    ELSE Null

\* MemStorage: this.users.set(id, user), whatever the username.
\* PostgresStorage: username is unique(); the insert of a second row with
\* the username is rejected (the serial has advanced by then), the error is
\* logged and rethrown.
createUser(us, id, insertUser) ==
    IF backend = "pg" /\ \E u \in us : u.username = insertUser.username
    THEN [users |-> us, nextUserId |-> id + 1, result |-> Null, threw |-> TRUE]
    ELSE LET user == [id |-> id, username |-> insertUser.username,
                      password |-> insertUser.password]
         IN  [users |-> us \cup {user}, nextUserId |-> id + 1,
              result |-> user, threw |-> FALSE]

----------------------------------------------------------------------------
(* IStorage: transactions *)

getTransactions(s, userId) == {t \in s.transactions : t.userId = userId}

\* MemStorage: local calendar year and month of new Date(transaction.date).
\* PostgresStorage: new Date(transaction.date) between the local midnights
\* new Date(year, month - 1, 1) and new Date(year, month, 0), both inclusive.
getTransactionsByMonth(s, userId, year, month) ==
    IF backend = "mem"
    THEN {t \in s.transactions :
             /\ t.userId = userId
             /\ LocalDate(ParseDate(t.date)).y = year
             /\ LocalDate(ParseDate(t.date)).m = month}
    ELSE LET startDate == LocalMidnight(D(year, month, 1))
             endDate   == LocalMidnight(D(year, month, DaysInMonth(year, month)))
         IN  {t \in s.transactions :
                 /\ t.userId = userId
                 /\ ParseDate(t.date) >= startDate
                 /\ ParseDate(t.date) <= endDate}

getTransactionById(s, id) ==
    IF \E t \in s.transactions : t.id = id
    THEN CHOOSE t \in s.transactions : t.id = id
    ELSE Null

createTransaction(s, userId, data, now) ==
    LET transaction ==
            [id          |-> s.transactionId,
             userId      |-> userId,
             date        |-> dateToString(data.date),
             type        |-> data.type,
             description |-> data.description,
             category    |-> data.category,
             amount      |-> data.amount,
             pdfSource   |-> IF Has(data, "pdfSource") THEN data.pdfSource ELSE NullText,
             createdAt   |-> now]
    IN  [store  |-> [s EXCEPT !.transactions = @ \cup {transaction},
                              !.transactionId = @ + 1],
         result |-> transaction]

\* mutant: a description that is not supplied is written as the empty string
ApplyUpdate_BlankDescription(transaction, updateData) ==
    [transaction EXCEPT
        !.date        = IF Has(updateData, "date")
                        THEN dateToString(updateData.date) ELSE @,
        !.amount      = IF Has(updateData, "amount") THEN updateData.amount ELSE @,
        !.description = IF Has(updateData, "description")
                        THEN updateData.description ELSE "",
        !.category    = IF Has(updateData, "category") THEN updateData.category ELSE @,
        !.type        = IF Has(updateData, "type") THEN updateData.type ELSE @,
        !.pdfSource   = IF Has(updateData, "pdfSource") THEN updateData.pdfSource ELSE @]

\* the fields of updateData laid over the stored transaction
ApplyUpdate(transaction, updateData) ==
    [transaction EXCEPT
        !.date        = IF Has(updateData, "date")
                        THEN dateToString(updateData.date) ELSE @,
        !.amount      = IF Has(updateData, "amount") THEN updateData.amount ELSE @,
        !.description = IF Has(updateData, "description")
                        THEN updateData.description ELSE @,
        !.category    = IF Has(updateData, "category") THEN updateData.category ELSE @,
        !.type        = IF Has(updateData, "type") THEN updateData.type ELSE @,
        !.pdfSource   = IF Has(updateData, "pdfSource") THEN updateData.pdfSource ELSE @]

\* PostgresStorage: an update that sets no column is rejected by the query
\* builder; the catch block logs it and returns undefined.
updateTransaction(s, id, updateData) ==
    LET transaction == getTransactionById(s, id) IN
    IF transaction = Null \/ (backend = "pg" /\ DOMAIN updateData = {})
    THEN [store |-> s, result |-> Null]
    ELSE LET updatedTransaction == ApplyUpdate(transaction, updateData)
         IN  [store  |-> [s EXCEPT !.transactions =
                                       (@ \ {transaction}) \cup {updatedTransaction}],
              result |-> updatedTransaction]

\* mutant: the delete reports success whether or not a row was removed
deleteTransaction_AlwaysTrue(s, id) ==
    [store  |-> [s EXCEPT !.transactions = {t \in @ : t.id # id}],
     result |-> TRUE]

deleteTransaction(s, id) ==
    [store  |-> [s EXCEPT !.transactions = {t \in @ : t.id # id}],
     result |-> \E t \in s.transactions : t.id = id]

----------------------------------------------------------------------------
(* IStorage: monthly summaries and category breakdowns *)

getMonthlySummaries(s, userId) == {m \in s.monthlySummaries : m.userId = userId}

MatchingSummaries(s, userId, year, month) ==
    {m \in s.monthlySummaries :
        m.userId = userId /\ m.year = year /\ m.month = month}

\* find / findFirst: the first match, i.e. the one inserted first
getMonthlySummaryByMonth(s, userId, year, month) ==
    LET found == MatchingSummaries(s, userId, year, month) IN
    IF found = {} THEN Null
    ELSE CHOOSE m \in found : \A o \in found : m.id <= o.id

\* mutant: the summary is inserted without looking for an existing one
createOrUpdateMonthlySummary_AlwaysInsert(s, userId, summaryData, now) ==
    LET summary ==
            [id            |-> s.summaryId,
             userId        |-> userId,
             year          |-> summaryData.year,
             month         |-> summaryData.month,
             totalIncome   |-> summaryData.totalIncome,
             totalExpenses |-> summaryData.totalExpenses,
             netBalance    |-> summaryData.netBalance,
             lastUpdated   |-> now]
    IN  [store  |-> [s EXCEPT !.monthlySummaries = @ \cup {summary},
                              !.summaryId = @ + 1],
         result |-> summary]

createOrUpdateMonthlySummary(s, userId, summaryData, now) ==
    LET existing == getMonthlySummaryByMonth(s, userId, summaryData.year,
                                             summaryData.month)
    IN  IF existing # Null
        THEN LET updatedSummary ==
                     [existing EXCEPT !.totalIncome   = summaryData.totalIncome,
                                      !.totalExpenses = summaryData.totalExpenses,
                                      !.netBalance    = summaryData.netBalance,
                                      !.lastUpdated   = now]
             IN  [store  |-> [s EXCEPT !.monthlySummaries =
                                           (@ \ {existing}) \cup {updatedSummary}],
                  result |-> updatedSummary]
        ELSE LET summary ==
                     [id            |-> s.summaryId,
                      userId        |-> userId,
                      year          |-> summaryData.year,
                      month         |-> summaryData.month,
                      totalIncome   |-> summaryData.totalIncome,
                      totalExpenses |-> summaryData.totalExpenses,
                      netBalance    |-> summaryData.netBalance,
                      lastUpdated   |-> now]
             IN  [store  |-> [s EXCEPT !.monthlySummaries = @ \cup {summary},
                                       !.summaryId = @ + 1],
                  result |-> summary]

\* mutant: the breakdowns of every summary, the summaryId filter left out
getCategoryBreakdowns_All(s, sid) == s.categoryBreakdowns

getCategoryBreakdowns(s, sid) ==
    {b \in s.categoryBreakdowns : b.summaryId = sid}

\* String(percentage) on the volatile backend; numeric(5,2) on the durable one
StoredPercentage(p) ==
    IF backend = "mem" THEN p
    ELSE RoundDiv(p * NumericScale, PctUnits) * (PctUnits \div NumericScale)

createCategoryBreakdown(s, sid, breakdownData) ==
    LET breakdown ==
            [id         |-> s.breakdownId,
             summaryId  |-> sid,
             category   |-> breakdownData.category,
             amount     |-> breakdownData.amount,
             percentage |-> StoredPercentage(breakdownData.percentage)]
    IN  [s EXCEPT !.categoryBreakdowns = @ \cup {breakdown},
                  !.breakdownId = @ + 1]

RECURSIVE InsertBreakdowns(_, _, _)
InsertBreakdowns(s, sid, breakdowns) ==
    IF breakdowns = <<>> THEN s
    ELSE InsertBreakdowns(createCategoryBreakdown(s, sid, Head(breakdowns)),
                          sid, Tail(breakdowns))

\* results: the rows createCategoryBreakdown returned, in the order given
RECURSIVE InsertedBreakdowns(_, _, _)
InsertedBreakdowns(s, sid, breakdowns) ==
    IF breakdowns = <<>> THEN <<>>
    ELSE LET next    == createCategoryBreakdown(s, sid, Head(breakdowns))
             created == CHOOSE b \in next.categoryBreakdowns : b.id = s.breakdownId
         IN  <<created>> \o InsertedBreakdowns(next, sid, Tail(breakdowns))

\* mutant: the delete has no summaryId filter
DeleteBreakdowns_All(s, sid) == [s EXCEPT !.categoryBreakdowns = {}]

\* mutant: the breakdowns of the summary are not deleted before the insert
DeleteBreakdowns_KeepOld(s, sid) == s

DeleteBreakdowns(s, sid) ==
    [s EXCEPT !.categoryBreakdowns = {b \in @ : b.summaryId # sid}]

\* mutant: an empty replacement returns before the delete
updateCategoryBreakdowns_SkipEmpty(s, sid, breakdowns) ==
    IF breakdowns = <<>> THEN s
    ELSE InsertBreakdowns(DeleteBreakdowns(s, sid), sid, breakdowns)

updateCategoryBreakdowns(s, sid, breakdowns) ==
    InsertBreakdowns(DeleteBreakdowns(s, sid), sid, breakdowns)

\* the value updateCategoryBreakdowns returns
updateCategoryBreakdownsResults(s, sid, breakdowns) ==
    InsertedBreakdowns(DeleteBreakdowns(s, sid), sid, breakdowns)

----------------------------------------------------------------------------
(* The aggregation engine *)

RECURSIVE SumAmount(_)
SumAmount(S) ==
    IF S = {} THEN 0
    ELSE LET t == CHOOSE x \in S : TRUE IN t.amount + SumAmount(S \ {t})

RECURSIVE SumAbsAmount(_)
SumAbsAmount(S) ==
    IF S = {} THEN 0
    ELSE LET t == CHOOSE x \in S : TRUE IN Abs(t.amount) + SumAbsAmount(S \ {t})

TotalIncome(txs) == SumAmount({t \in txs : t.type = "income"})

\* mutant: every transaction counted as an expense, the type filter left out
TotalExpenses_AllTypes(txs) == SumAbsAmount(txs)

TotalExpenses(txs) == SumAbsAmount({t \in txs : t.type = "expense"})

\* mutant: expenses added instead of subtracted
NetBalance_Added(totalIncome, totalExpenses) == totalIncome + totalExpenses

NetBalance(totalIncome, totalExpenses) == totalIncome - totalExpenses

\* expensesByCategory.get(category) once every expense is added
ExpensesByCategory(txs, category) ==
    SumAbsAmount({t \in txs : t.type = "expense" /\ t.category = category})

\* mutant: the fraction amount / totalExpenses, not multiplied by 100
Percentage_Fraction(amount, totalExpenses) ==
    RoundDiv(amount * PctUnits, totalExpenses)

\* what a division by zero yields: NaN or Infinity, no percentage
NotANumber == -1

\* (amount / totalExpenses) * 100
Percentage(amount, totalExpenses) ==
    IF totalExpenses = 0 THEN NotANumber
    ELSE ((amount * 100) \div totalExpenses) * PctUnits
             + RoundDiv(((amount * 100) % totalExpenses) * PctUnits, totalExpenses)

\* mutant: every category of the map becomes an entry, the amount > 0 filter
\* left out
RECURSIVE Breakdowns_ZeroFilled(_, _, _)
Breakdowns_ZeroFilled(txs, totalExpenses, cats) ==
    IF cats = <<>> THEN <<>>
    ELSE LET amount == ExpensesByCategory(txs, Head(cats))
         IN  <<[category   |-> Head(cats),
                amount     |-> amount,
                percentage |-> Percentage(amount, totalExpenses)]>>
                 \o Breakdowns_ZeroFilled(txs, totalExpenses, Tail(cats))

\* the entries of the map, in the order the categories were set, with amount > 0
RECURSIVE Breakdowns(_, _, _)
Breakdowns(txs, totalExpenses, cats) ==
    IF cats = <<>> THEN <<>>
    ELSE LET amount == ExpensesByCategory(txs, Head(cats))
             rest   == Breakdowns(txs, totalExpenses, Tail(cats))
         IN  IF amount > 0
             THEN <<[category   |-> Head(cats),
                     amount     |-> amount,
                     percentage |-> Percentage(amount, totalExpenses)]>> \o rest
             ELSE rest

\* mutant: no early return, an empty month is aggregated like any other
generateMonthlySummary_NoEarlyReturn(s, userId, year, month, now) ==
    LET txs == getTransactionsByMonth(s, userId, year, month)
        totalIncome   == TotalIncome(txs)
        totalExpenses == TotalExpenses(txs)
        upsert == createOrUpdateMonthlySummary(s, userId,
                      [year          |-> year,
                       month         |-> month,
                       totalIncome   |-> totalIncome,
                       totalExpenses |-> totalExpenses,
                       netBalance    |-> NetBalance(totalIncome, totalExpenses)], now)
    IN  [store  |-> updateCategoryBreakdowns(upsert.store, upsert.result.id,
                        Breakdowns(txs, totalExpenses, categories)),
         result |-> upsert.result]

generateMonthlySummary(s, userId, year, month, now) ==
    LET txs == getTransactionsByMonth(s, userId, year, month) IN
    IF txs = {} THEN [store |-> s, result |-> Null]
    ELSE LET totalIncome   == TotalIncome(txs)
             totalExpenses == TotalExpenses(txs)
             netBalance    == NetBalance(totalIncome, totalExpenses)
             upsert == createOrUpdateMonthlySummary(s, userId,
                           [year          |-> year,
                            month         |-> month,
                            totalIncome   |-> totalIncome,
                            totalExpenses |-> totalExpenses,
                            netBalance    |-> netBalance], now)
             breakdowns == Breakdowns(txs, totalExpenses, categories)
         IN  [store  |-> updateCategoryBreakdowns(upsert.store, upsert.result.id,
                                                  breakdowns),
              result |-> upsert.result]

----------------------------------------------------------------------------
(* insertTransactionSchema *)

RequiredFields == {"date", "description", "category", "amount", "type"}

\* z.enum([...categories]) and z.enum(["income", "expense"]) on the fields given
ValidFields(body) ==
    /\ Has(body, "category") => body.category \in Range(categories)
    /\ Has(body, "type") => body.type \in TransactionTypes

\* insertTransactionSchema.parse(body) does not throw
ParsesAsInsert(body) == RequiredFields \subseteq DOMAIN body /\ ValidFields(body)

\* mutant: the partial body is taken as it comes
ParsesAsPartial_Anything(body) == TRUE

\* insertTransactionSchema.partial().parse(body) does not throw
ParsesAsPartial(body) == ValidFields(body)

\* the parsed value: z.coerce.date() turns the date string into an instant
Coerced(body) ==
    [f \in DOMAIN body |-> IF f = "date" THEN ParseDate(body[f]) ELSE body[f]]

----------------------------------------------------------------------------
(* Statement importer *)

\* A line of extracted text: the cents of its first "$d.dd" match (NoAmount
\* when the pattern does not match) and the keywords it contains.
NoAmount == -1

Line(text, amount, words) == [text |-> text, amount |-> amount, words |-> words]

Contains(line, keywords) == line.words \cap keywords # {}

\* mutant: the Income rule is tried first
CategoryOfLine_IncomeFirst(line) ==
    IF Contains(line, {"salary", "deposit", "income"}) THEN "Income"
    ELSE IF Contains(line, {"rent", "mortgage", "home"}) THEN "Housing"
    ELSE IF Contains(line, {"car", "gas", "uber", "lyft", "transit"})
         THEN "Transportation"
    ELSE IF Contains(line, {"grocery", "restaurant", "food"}) THEN "Food"
    ELSE IF Contains(line, {"electric", "water", "phone", "internet"})
         THEN "Utilities"
    ELSE "Other"

CategoryOfLine(line) ==
    IF Contains(line, {"rent", "mortgage", "home"}) THEN "Housing"
    ELSE IF Contains(line, {"car", "gas", "uber", "lyft", "transit"})
         THEN "Transportation"
    ELSE IF Contains(line, {"grocery", "restaurant", "food"}) THEN "Food"
    ELSE IF Contains(line, {"electric", "water", "phone", "internet"})
         THEN "Utilities"
    ELSE IF Contains(line, {"salary", "deposit", "income"}) THEN "Income"
    ELSE "Other"

IsIncomeLine(line) == Contains(line, {"deposit", "salary", "income", "transfer in"})

\* mutant: a candidate for every line, the amount pattern not tested
\* (parseFloat('0') where nothing matches)
extractTransactions_EveryLine(lines, today) ==
    [i \in 1..Len(lines) |->
        [date        |-> today,
         description |-> lines[i].text,
         category    |-> CategoryOfLine(lines[i]),
         amount      |-> IF lines[i].amount = NoAmount THEN 0
                         ELSE IF IsIncomeLine(lines[i])
                              THEN lines[i].amount ELSE -lines[i].amount,
         type        |-> IF IsIncomeLine(lines[i]) THEN "income" ELSE "expense"]]

\* one candidate per line that matches the amount pattern; today is new Date()
\* (line.text stands for line.trim().substring(0, 100))
RECURSIVE extractTransactions(_, _)
extractTransactions(lines, today) ==
    IF lines = <<>> THEN <<>>
    ELSE LET line == Head(lines)
             rest == extractTransactions(Tail(lines), today)
         IN  IF line.amount = NoAmount THEN rest
             ELSE <<[date        |-> today,
                     description |-> line.text,
                     category    |-> CategoryOfLine(line),
                     amount      |-> IF IsIncomeLine(line)
                                     THEN line.amount ELSE -line.amount,
                     type        |-> IF IsIncomeLine(line)
                                     THEN "income" ELSE "expense"]>> \o rest

\* the loop of the upload handler: createTransaction for every candidate,
\* each tagged pdfSource: 'Uploaded PDF'
RECURSIVE SaveAll(_, _, _)
SaveAll(s, extracted, now) ==
    IF extracted = <<>> THEN [store |-> s, saved |-> <<>>]
    ELSE LET data == [f \in DOMAIN Head(extracted) \cup {"pdfSource"} |->
                         IF f = "pdfSource" THEN "Uploaded PDF"
                         ELSE Head(extracted)[f]]
             one  == createTransaction(s, DemoUser, data, now)
             more == SaveAll(one.store, Tail(extracted), now)
         IN  [store |-> more.store, saved |-> <<one.result>> \o more.saved]

----------------------------------------------------------------------------
(* Requests the model sends *)

Shape(type, category, amount) ==
    [type |-> type, category |-> category, amount |-> amount]

Shapes ==
    {Shape("income", "Income", 100000),
     Shape("expense", "Food", -20000)}

Body(date, shape) ==
    [date        |-> date,
     description |-> "manual",
     category    |-> shape.category,
     amount      |-> shape.amount,
     type        |-> shape.type]

InvalidBody == [category |-> "Bogus"]

PostBodies == {Body(d, sh) : d \in Dates, sh \in Shapes} \cup {InvalidBody}

PutBodies ==
    {[date |-> D(2024, 4, 1)], [category |-> "Housing"], << >>, InvalidBody}

\* grocery : rent = 5 : 27, i.e. 15.625 % and 84.375 %
Statements ==
    {<<Line("opening balance", NoAmount, {}),
       Line("salary deposit $1000.00", 100000, {"salary", "deposit"}),
       Line("grocery $50.00", 5000, {"grocery"}),
       Line("rent $270.00", 27000, {"rent"})>>,
     <<Line("opening balance", NoAmount, {})>>}

\* the day the statements are uploaded on
Today == D(2024, 3, 31)

Uploads ==
    {[pdfContent |-> FALSE, parses |-> FALSE, text |-> << >>],
     [pdfContent |-> TRUE, parses |-> FALSE, text |-> << >>]}
        \cup {[pdfContent |-> TRUE, parses |-> TRUE, text |-> t] : t \in Statements}

\* year and month of GET /api/summaries/:year/:month; 13 is no month
QueryYears == {2024}

QueryMonths == {3, 4, 13}

----------------------------------------------------------------------------
(* Request handlers *)

SetStore(s) ==
    /\ transactions' = s.transactions
    /\ monthlySummaries' = s.monthlySummaries
    /\ categoryBreakdowns' = s.categoryBreakdowns
    /\ transactionId' = s.transactionId
    /\ summaryId' = s.summaryId
    /\ breakdownId' = s.breakdownId

Response(op, status, old, tx, key, result) ==
    [op |-> op, status |-> status, old |-> old, tx |-> tx, key |-> key,
     result |-> result]

Answer(s, response) ==
    /\ SetStore(s)
    /\ last' = response
    /\ clock' = clock + 1
    /\ UNCHANGED <<backend, tz, storageInstance, instances, requests, users, nextUserId>>

\* app.post('/api/transactions')
PostTransaction(body) ==
    /\ clock < MaxOps
    /\ IF ~ParsesAsInsert(body)
       THEN Answer(Store, Response("POST", 400, Null, Null, Null, Null))
       ELSE LET created == createTransaction(Store, DemoUser, Coerced(body), clock)
                key     == HandlerMonth(created.result.date)
                summary == generateMonthlySummary(created.store, DemoUser,
                                                  key.year, key.month, clock)
            IN  Answer(summary.store,
                       Response("POST", 201, Null, created.result, key,
                                summary.result))

\* app.put('/api/transactions/:id')
PutTransaction(id, body) ==
    /\ clock < MaxOps
    /\ LET transaction == getTransactionById(Store, id) IN
       IF transaction = Null
       THEN Answer(Store, Response("PUT", 404, Null, Null, Null, Null))
       ELSE IF ~ParsesAsPartial(body)
       THEN Answer(Store, Response("PUT", 400, transaction, Null, Null, Null))
       ELSE LET updated == updateTransaction(Store, id, Coerced(body))
                date    == IF updated.result # Null
                           THEN updated.result.date ELSE transaction.date
                key     == HandlerMonth(date)
                summary == generateMonthlySummary(updated.store, transaction.userId,
                                                  key.year, key.month, clock)
            IN  Answer(summary.store,
                       Response("PUT", 200, transaction, updated.result, key,
                                summary.result))

\* app.delete('/api/transactions/:id')
DeleteTransaction(id) ==
    /\ clock < MaxOps
    /\ LET transaction == getTransactionById(Store, id) IN
       IF transaction = Null
       THEN Answer(Store, Response("DELETE", 404, Null, Null, Null, Null))
       ELSE LET deleted == deleteTransaction(Store, id) IN
            IF deleted.result
            THEN LET key     == HandlerMonth(transaction.date)
                     summary == generateMonthlySummary(deleted.store,
                                    transaction.userId, key.year, key.month, clock)
                 IN  Answer(summary.store,
                            Response("DELETE", 204, transaction, Null, key,
                                     summary.result))
            ELSE Answer(deleted.store,
                        Response("DELETE", 500, transaction, Null, Null, Null))

\* the response of an upload: the status and the message of its body
Uploaded(status, message, tx, key, result) ==
    [op |-> "UPLOAD", status |-> status, old |-> Null, tx |-> tx, key |-> key,
     result |-> result, message |-> message]

\* app.post('/api/upload-statement')
UploadStatement(upload) ==
    /\ clock < MaxOps
    /\ IF ~upload.pdfContent
       THEN Answer(Store, Uploaded(400, "No PDF content provided", Null, Null, Null))
       ELSE IF ~upload.parses
       THEN Answer(Store, Uploaded(500, "Failed to process PDF", Null, Null, Null))
       ELSE LET extracted == extractTransactions(upload.text, ParseDate(Today)) IN
            IF extracted = << >>
            THEN Answer(Store, Uploaded(400, "No transactions could be extracted",
                                        Null, Null, Null))
            ELSE LET all     == SaveAll(Store, extracted, clock)
                     key     == HandlerMonth(all.saved[1].date)
                     summary == generateMonthlySummary(all.store, DemoUser,
                                                       key.year, key.month, clock)
                 IN  Answer(summary.store,
                            Uploaded(201, "Successfully extracted", all.saved[1],
                                     key, summary.result))

\* the response of a GET: the status and, with 200, { summary, breakdowns }
Query(status, year, month, summary, breakdowns) ==
    [op |-> "GET", status |-> status, old |-> Null, tx |-> Null, key |-> Null,
     result |-> Null, params |-> [year |-> year, month |-> month],
     summary |-> summary, breakdowns |-> breakdowns]

\* app.get('/api/summaries/:year/:month')
GetSummary(year, month) ==
    /\ clock < MaxOps
    /\ IF month < 1 \/ month > 12
       THEN Answer(Store, Query(400, year, month, Null, {}))
       ELSE LET summary == getMonthlySummaryByMonth(Store, DemoUser, year, month) IN
            IF summary = Null
            THEN Answer(Store, Query(404, year, month, Null, {}))
            ELSE Answer(Store, Query(200, year, month, summary,
                                     getCategoryBreakdowns(Store, summary.id)))

----------------------------------------------------------------------------
(* Specification *)

\* The store is chosen and holds the demo user.  The handle, the storage
\* objects and the requests in flight are followed only where getStorage
\* and overlapping requests are modelled.
Init ==
    /\ backend \in {"mem", "pg"}
    /\ tz \in TimeZones
    /\ storageInstance = 0
    /\ instances = << >>
    /\ requests = << >>
    /\ users = DemoUsers
    /\ nextUserId = DemoUser + 1
    /\ transactions = EmptyStore.transactions
    /\ monthlySummaries = EmptyStore.monthlySummaries
    /\ categoryBreakdowns = EmptyStore.categoryBreakdowns
    /\ transactionId = EmptyStore.transactionId
    /\ summaryId = EmptyStore.summaryId
    /\ breakdownId = EmptyStore.breakdownId
    /\ clock = 0
    /\ last = Response("none", 0, Null, Null, Null, Null)

Next ==
    \/ \E body \in PostBodies : PostTransaction(body)
    \/ \E id \in 1..transactionId, body \in PutBodies : PutTransaction(id, body)
    \/ \E id \in 1..transactionId : DeleteTransaction(id)
    \/ \E upload \in Uploads : UploadStatement(upload)
    \/ \E year \in QueryYears, month \in QueryMonths : GetSummary(year, month)

Spec == Init /\ [][Next]_vars

----------------------------------------------------------------------------
(* The durable backend with a failing persistence layer.  During one        *)
(* request the database rejects the first statement of every call of one    *)
(* write operation (fault); NoFault is a request served by a working        *)
(* database.  Each operation says whether it failed and whether the error   *)
(* left it (threw): createTransaction and createOrUpdateMonthlySummary log  *)
(* and rethrow, updateTransaction, deleteTransaction and                    *)
(* updateCategoryBreakdowns log and return undefined, false and [].         *)

MaxFaultOps == 2

NoFault == "none"

Faults ==
    {"createTransaction", "updateTransaction", "deleteTransaction",
     "createOrUpdateMonthlySummary", "updateCategoryBreakdowns"}

Outcome(store, result, failed, threw) ==
    [store |-> store, result |-> result, failed |-> failed, threw |-> threw]

createTransactionOn(fault, s, userId, data, now) ==
    IF fault = "createTransaction" THEN Outcome(s, Null, TRUE, TRUE)
    ELSE LET r == createTransaction(s, userId, data, now)
         IN  Outcome(r.store, r.result, FALSE, FALSE)

updateTransactionOn(fault, s, id, updateData) ==
    IF fault = "updateTransaction" THEN Outcome(s, Null, TRUE, FALSE)
    ELSE LET r == updateTransaction(s, id, updateData)
         IN  Outcome(r.store, r.result, FALSE, FALSE)

deleteTransactionOn(fault, s, id) ==
    IF fault = "deleteTransaction" THEN Outcome(s, FALSE, TRUE, FALSE)
    ELSE LET r == deleteTransaction(s, id)
         IN  Outcome(r.store, r.result, FALSE, FALSE)

\* the upsert throws out of generateMonthlySummary; a failed replacement of
\* the breakdowns returns [] and the summary is returned as if all went well
generateMonthlySummaryOn(fault, s, userId, year, month, now) ==
    LET txs == getTransactionsByMonth(s, userId, year, month) IN
    IF txs = {} THEN Outcome(s, Null, FALSE, FALSE)
    ELSE IF fault = "createOrUpdateMonthlySummary" THEN Outcome(s, Null, TRUE, TRUE)
    ELSE IF fault = "updateCategoryBreakdowns"
    THEN LET totalIncome   == TotalIncome(txs)
             totalExpenses == TotalExpenses(txs)
             upsert == createOrUpdateMonthlySummary(s, userId,
                           [year          |-> year,
                            month         |-> month,
                            totalIncome   |-> totalIncome,
                            totalExpenses |-> totalExpenses,
                            netBalance    |-> NetBalance(totalIncome, totalExpenses)],
                           now)
         IN  Outcome(upsert.store, upsert.result, TRUE, FALSE)
    ELSE LET r == generateMonthlySummary(s, userId, year, month, now)
         IN  Outcome(r.store, r.result, FALSE, FALSE)

\* the loop of the upload handler; it ends at the first createTransaction
\* that throws
RECURSIVE SaveAllOn(_, _, _, _)
SaveAllOn(fault, s, extracted, now) ==
    IF extracted = <<>> THEN [store |-> s, saved |-> <<>>, threw |-> FALSE]
    ELSE LET data == [f \in DOMAIN Head(extracted) \cup {"pdfSource"} |->
                         IF f = "pdfSource" THEN "Uploaded PDF"
                         ELSE Head(extracted)[f]]
             one  == createTransactionOn(fault, s, DemoUser, data, now)
         IN  IF one.threw THEN [store |-> one.store, saved |-> <<>>, threw |-> TRUE]
             ELSE LET more == SaveAllOn(fault, one.store, Tail(extracted), now)
                  IN  [store |-> more.store,
                       saved |-> <<one.result>> \o more.saved,
                       threw |-> more.threw]

\* a response, with the fault of the request, whether a write operation
\* failed in it and whether the error reached the handler's catch block
AnswerOn(fault, s, response, failed, propagated) ==
    Answer(s, [op |-> response.op, status |-> response.status,
               old |-> response.old, tx |-> response.tx, key |-> response.key,
               result |-> response.result, fault |-> fault,
               failed |-> failed, propagated |-> propagated])

\* app.post('/api/transactions')
PostTransactionOn(fault, body) ==
    /\ clock < MaxFaultOps
    /\ IF ~ParsesAsInsert(body)
       THEN AnswerOn(fault, Store, Response("POST", 400, Null, Null, Null, Null),
                     FALSE, FALSE)
       ELSE LET created == createTransactionOn(fault, Store, DemoUser,
                                               Coerced(body), clock)
            IN  IF created.threw
                THEN AnswerOn(fault, created.store,
                              Response("POST", 500, Null, Null, Null, Null),
                              TRUE, TRUE)
                ELSE LET key     == HandlerMonth(created.result.date)
                         summary == generateMonthlySummaryOn(fault, created.store,
                                        DemoUser, key.year, key.month, clock)
                     IN  AnswerOn(fault, summary.store,
                                  Response("POST", IF summary.threw THEN 500 ELSE 201,
                                           Null, created.result, key, summary.result),
                                  summary.failed, summary.threw)

\* app.put('/api/transactions/:id')
PutTransactionOn(fault, id, body) ==
    /\ clock < MaxFaultOps
    /\ LET transaction == getTransactionById(Store, id) IN
       IF transaction = Null
       THEN AnswerOn(fault, Store, Response("PUT", 404, Null, Null, Null, Null),
                     FALSE, FALSE)
       ELSE IF ~ParsesAsPartial(body)
       THEN AnswerOn(fault, Store, Response("PUT", 400, transaction, Null, Null, Null),
                     FALSE, FALSE)
       ELSE LET updated == updateTransactionOn(fault, Store, id, Coerced(body))
                date    == IF updated.result # Null
                           THEN updated.result.date ELSE transaction.date
                key     == HandlerMonth(date)
                summary == generateMonthlySummaryOn(fault, updated.store,
                               transaction.userId, key.year, key.month, clock)
            IN  AnswerOn(fault, summary.store,
                         Response("PUT", IF summary.threw THEN 500 ELSE 200,
                                  transaction, updated.result, key, summary.result),
                         updated.failed \/ summary.failed, summary.threw)

\* app.delete('/api/transactions/:id')
DeleteTransactionOn(fault, id) ==
    /\ clock < MaxFaultOps
    /\ LET transaction == getTransactionById(Store, id) IN
       IF transaction = Null
       THEN AnswerOn(fault, Store, Response("DELETE", 404, Null, Null, Null, Null),
                     FALSE, FALSE)
       ELSE LET deleted == deleteTransactionOn(fault, Store, id) IN
            IF deleted.result
            THEN LET key     == HandlerMonth(transaction.date)
                     summary == generateMonthlySummaryOn(fault, deleted.store,
                                    transaction.userId, key.year, key.month, clock)
                 IN  AnswerOn(fault, summary.store,
                              Response("DELETE", IF summary.threw THEN 500 ELSE 204,
                                       transaction, Null, key, summary.result),
                              summary.failed, summary.threw)
            ELSE AnswerOn(fault, deleted.store,
                          Response("DELETE", 500, transaction, Null, Null, Null),
                          deleted.failed, FALSE)

\* app.post('/api/upload-statement')
UploadStatementOn(fault, upload) ==
    /\ clock < MaxFaultOps
    /\ IF ~upload.pdfContent
       THEN AnswerOn(fault, Store, Response("UPLOAD", 400, Null, Null, Null, Null),
                     FALSE, FALSE)
       ELSE IF ~upload.parses
       THEN AnswerOn(fault, Store, Response("UPLOAD", 500, Null, Null, Null, Null),
                     FALSE, FALSE)
       ELSE LET extracted == extractTransactions(upload.text, ParseDate(Today)) IN
            IF extracted = << >>
            THEN AnswerOn(fault, Store,
                          Response("UPLOAD", 400, Null, Null, Null, Null),
                          FALSE, FALSE)
            ELSE LET all == SaveAllOn(fault, Store, extracted, clock) IN
                 IF all.threw
                 THEN AnswerOn(fault, all.store,
                               Response("UPLOAD", 500, Null, Null, Null, Null),
                               TRUE, TRUE)
                 ELSE LET key     == HandlerMonth(all.saved[1].date)
                          summary == generateMonthlySummaryOn(fault, all.store,
                                         DemoUser, key.year, key.month, clock)
                      IN  AnswerOn(fault, summary.store,
                                   Response("UPLOAD",
                                            IF summary.threw THEN 500 ELSE 201,
                                            Null, all.saved[1], key, summary.result),
                                   summary.failed, summary.threw)

FaultInit == Init /\ backend = "pg"

FaultNext ==
    \E fault \in Faults \cup {NoFault} :
        \/ \E body \in PostBodies : PostTransactionOn(fault, body)
        \/ \E id \in 1..transactionId, body \in PutBodies :
               PutTransactionOn(fault, id, body)
        \/ \E id \in 1..transactionId : DeleteTransactionOn(fault, id)
        \/ \E upload \in Uploads : UploadStatementOn(fault, upload)

FaultSpec == FaultInit /\ [][FaultNext]_vars

----------------------------------------------------------------------------
(* Vocabulary of the properties.  "The month's transactions" are the ones   *)
(* the store's own month query returns, which is the set recompute reads.   *)

Key(year, month) == [year |-> year, month |-> month]

\* every (year, month) a date of the model can be filed under
Months == {HandlerMonth(d) : d \in Dates} \cup {Key(d.y, d.m) : d \in Dates}

MonthTx(s, k) == getTransactionsByMonth(s, DemoUser, k.year, k.month)

SummariesOf(s, k) == MatchingSummaries(s, DemoUser, k.year, k.month)

Totals(m) ==
    [totalIncome |-> m.totalIncome, totalExpenses |-> m.totalExpenses,
     netBalance |-> m.netBalance]

BreakdownValue(b) ==
    [category |-> b.category, amount |-> b.amount, percentage |-> b.percentage]

BreakdownValues(s, sid) == {BreakdownValue(b) : b \in getCategoryBreakdowns(s, sid)}

\* what a set of transactions aggregates to
IncomeOf(txs) == SumAmount({t \in txs : t.type = "income"})

ExpensesOf(txs) == SumAbsAmount({t \in txs : t.type = "expense"})

ExpensesIn(txs, c) ==
    SumAbsAmount({t \in txs : t.type = "expense" /\ t.category = c})

SpentCategories(txs) == {c \in Range(categories) : ExpensesIn(txs, c) # 0}

AggregateTotals(txs) ==
    [totalIncome   |-> IncomeOf(txs),
     totalExpenses |-> ExpensesOf(txs),
     netBalance    |-> IncomeOf(txs) - ExpensesOf(txs)]

AggregateBreakdowns(txs) ==
    {[category   |-> c,
      amount     |-> ExpensesIn(txs, c),
      percentage |-> StoredPercentage(Percentage(ExpensesIn(txs, c), ExpensesOf(txs)))]
        : c \in SpentCategories(txs)}

\* the summary m and its breakdowns say what the transactions txs aggregate to
Reflects(s, m, txs) ==
    /\ Totals(m) = AggregateTotals(txs)
    /\ BreakdownValues(s, m.id) = AggregateBreakdowns(txs)
    /\ Cardinality(getCategoryBreakdowns(s, m.id)) = Cardinality(SpentCategories(txs))

\* the last request ran recompute for its month
Recomputed == last.key # Null

----------------------------------------------------------------------------
(* C1: after any sequence of completed POST, PUT, DELETE and upload         *)
(* requests, every stored monthly summary and its breakdowns equal the      *)
(* aggregation of the transactions now stored for its month, also when the  *)
(* month has become empty.                                                  *)
C1_SummaryEqualsAggregation ==
    \A k \in Months : \A m \in SummariesOf(Store, k) :
        Reflects(Store, m, MonthTx(Store, k))

(* C2: when a successful PUT moves a transaction from month A to another    *)
(* month B, both are recomputed: afterwards the summary of A no longer      *)
(* includes the transaction and the summary of B includes it.               *)
MovedMonth ==
    /\ last.op = "PUT" /\ last.status = 200 /\ last.tx # Null
    /\ HandlerMonth(last.old.date) # HandlerMonth(last.tx.date)

C2_MoveRecomputesBothMonths ==
    MovedMonth =>
        LET A == HandlerMonth(last.old.date)
            B == HandlerMonth(last.tx.date)
        IN  /\ \A m \in SummariesOf(Store, A) : Reflects(Store, m, MonthTx(Store, A))
            /\ MonthTx(Store, B) # {} =>
                   /\ SummariesOf(Store, B) # {}
                   /\ \A m \in SummariesOf(Store, B) :
                          Reflects(Store, m, MonthTx(Store, B))

(* C3: after recompute(userId, year, month) the breakdowns stored for that  *)
(* month's summary are exactly one per category with nonzero expense among  *)
(* the month's current transactions: no stale category survives, also when  *)
(* the month has no expenses or no transactions.                            *)
C3_NoStaleBreakdown ==
    Recomputed =>
        \A m \in SummariesOf(Store, last.key) :
            LET txs == MonthTx(Store, last.key)
                bs  == getCategoryBreakdowns(Store, m.id)
            IN  /\ {b.category : b \in bs} = SpentCategories(txs)
                /\ Cardinality(bs) = Cardinality(SpentCategories(txs))

----------------------------------------------------------------------------
(* C4: at most one monthly summary per (userId, year, month) in every       *)
(* reachable store; the upsert overwrites the summary stored for the key,   *)
(* keeping its id, and inserts one with a fresh id only when none exists.   *)
SomeTotals == [totalIncome |-> 1, totalExpenses |-> 2, netBalance |-> -1]

UpsertKeepsOne(k) ==
    LET existing == getMonthlySummaryByMonth(Store, DemoUser, k.year, k.month)
        data     == [f \in {"year", "month"} \cup DOMAIN SomeTotals |->
                        IF f = "year" THEN k.year
                        ELSE IF f = "month" THEN k.month ELSE SomeTotals[f]]
        upsert   == createOrUpdateMonthlySummary(Store, DemoUser, data, clock)
        after    == upsert.store.monthlySummaries
    IN  /\ SummariesOf(upsert.store, k) = {upsert.result}
        /\ Totals(upsert.result) = SomeTotals
        /\ IF existing # Null
           THEN /\ upsert.result.id = existing.id
                /\ after \ {upsert.result} = monthlySummaries \ {existing}
                /\ upsert.store.summaryId = summaryId
           ELSE /\ upsert.result.id = summaryId
                /\ \A m \in monthlySummaries : m.id # upsert.result.id
                /\ after \ {upsert.result} = monthlySummaries

C5_NetBalance ==
    /\ \A m \in monthlySummaries : m.netBalance = m.totalIncome - m.totalExpenses
    /\ last.result # Null =>
           /\ last.result \in SummariesOf(Store, last.key)
           /\ last.result.totalIncome = IncomeOf(MonthTx(Store, last.key))
           /\ last.result.totalExpenses = ExpensesOf(MonthTx(Store, last.key))

C5_Witness ==
    /\ last.result # Null
    /\ last.result.totalIncome > 0
    /\ last.result.totalExpenses > 0
    /\ \E t \in MonthTx(Store, last.key) : t.type = "expense" /\ t.amount < 0

(* C6: for every breakdown set produced by recompute with totalExpenses > 0 *)
(* the breakdown amounts add up to totalExpenses and the percentages add up *)
(* to 100 within rounding tolerance (half a hundredth of a percent for      *)
(* each breakdown).                                                         *)
RECURSIVE SumField(_, _)
SumField(bs, field) ==
    IF bs = {} THEN 0
    ELSE LET b == CHOOSE x \in bs : TRUE IN b[field] + SumField(bs \ {b}, field)

PercentageSum(m) == SumField(getCategoryBreakdowns(Store, m.id), "percentage")

C6_BreakdownsAddUp ==
    \A m \in monthlySummaries :
        m.totalExpenses > 0 =>
            LET bs == getCategoryBreakdowns(Store, m.id) IN
            /\ SumField(bs, "amount") = m.totalExpenses
            /\ 2 * NumericScale * Abs(PercentageSum(m) - 100 * PctUnits)
                   <= Cardinality(bs) * PctUnits

\* two categories whose rounded percentages do not add up to exactly 100
C6_Witness ==
    \E m \in monthlySummaries :
        /\ m.totalExpenses > 0
        /\ Cardinality(getCategoryBreakdowns(Store, m.id)) >= 2
        /\ PercentageSum(m) # 100 * PctUnits

----------------------------------------------------------------------------
(* C7: recompute twice in a row, with no transaction changed in between,    *)
(* leaves the same summary (totals and id) and the same breakdown           *)
(* (category, amount, percentage) values as recompute once; only the        *)
(* timestamp may differ.                                                    *)
WithoutTimestamp(m) ==
    IF m = Null THEN Null
    ELSE [id |-> m.id, userId |-> m.userId, year |-> m.year, month |-> m.month,
          totals |-> Totals(m)]

Recompute(s, k, now) == generateMonthlySummary(s, DemoUser, k.year, k.month, now)

SameAggregates(s1, s2, k) ==
    /\ {WithoutTimestamp(m) : m \in SummariesOf(s1, k)}
           = {WithoutTimestamp(m) : m \in SummariesOf(s2, k)}
    /\ \A m \in SummariesOf(s1, k) :
           /\ BreakdownValues(s1, m.id) = BreakdownValues(s2, m.id)
           /\ Cardinality(getCategoryBreakdowns(s1, m.id))
                  = Cardinality(getCategoryBreakdowns(s2, m.id))

C7_RecomputeIdempotent ==
    \A k \in Months :
        LET once  == Recompute(Store, k, clock)
            twice == Recompute(once.store, k, clock + 1)
        IN  /\ WithoutTimestamp(twice.result) = WithoutTimestamp(once.result)
            /\ SameAggregates(once.store, twice.store, k)
            /\ twice.store.transactions = once.store.transactions

\* a month with expenses in two categories whose summary a request wrote:
\* the second recompute rewrites the summary at a later time
C7_Witness ==
    /\ last.result # Null
    /\ Cardinality(getCategoryBreakdowns(Store, last.result.id)) >= 2
    /\ Recompute(Recompute(Store, last.key, clock).store, last.key,
                 clock + 1).result.lastUpdated = clock + 1

(* C8: purity of recompute.  Two stores that hold the same transactions     *)
(* for a month but differ in what was stored for it before: recompute       *)
(* returns the same result and leaves the same summary and breakdown values *)
(* in both.  The second store ranges over the stores reached by no request  *)
(* or by one POST.                                                          *)
AfterPost(body) ==
    LET created == createTransaction(EmptyStore, DemoUser, Coerced(body), 0)
        key     == HandlerMonth(created.result.date)
    IN  Recompute(created.store, key, 0).store

ReferenceStores ==
    {EmptyStore} \cup {AfterPost(body) : body \in {b \in PostBodies : ParsesAsInsert(b)}}

StoredValues(s, k) ==
    {[totals |-> Totals(m), breakdowns |-> BreakdownValues(s, m.id)]
        : m \in SummariesOf(s, k)}

ResultValues(result) == IF result = Null THEN Null ELSE Totals(result)

C8_RecomputePure ==
    \A other \in ReferenceStores : \A k \in Months :
        MonthTx(Store, k) = MonthTx(other, k) =>
            LET here  == Recompute(Store, k, clock)
                there == Recompute(other, k, clock)
            IN  /\ ResultValues(here.result) = ResultValues(there.result)
                /\ StoredValues(here.store, k) = StoredValues(there.store, k)

(* C9: a month whose transactions are an income of 1000.00 (Income) and an  *)
(* expense of -200.00 (Food) gets the summary 1000.00 / 200.00 / 800.00 and *)
(* the one breakdown Food, 200.00, 100 %; in general a breakdown's amount   *)
(* is the sum of the absolute expense amounts of its category and its       *)
(* percentage is amount / totalExpenses x 100.                              *)
TxValue(t) == [type |-> t.type, category |-> t.category, amount |-> t.amount]

IsScenario(txs) ==
    /\ Cardinality(txs) = 2
    /\ {TxValue(t) : t \in txs}
           = {[type |-> "income", category |-> "Income", amount |-> 100000],
              [type |-> "expense", category |-> "Food", amount |-> -20000]}

C9_Scenario ==
    last.result # Null =>
        LET txs == MonthTx(Store, last.key)
            bs  == getCategoryBreakdowns(Store, last.result.id)
        IN  /\ IsScenario(txs) =>
                   /\ SummariesOf(Store, last.key) = {last.result}
                   /\ Totals(last.result)
                          = [totalIncome |-> 100000, totalExpenses |-> 20000,
                             netBalance |-> 80000]
                   /\ Cardinality(bs) = 1
                   /\ {BreakdownValue(b) : b \in bs}
                          = {[category |-> "Food", amount |-> 20000,
                              percentage |-> 100 * PctUnits]}
            /\ \A b \in bs :
                   /\ b.amount = ExpensesIn(txs, b.category)
                   /\ b.percentage
                          = StoredPercentage(Percentage(b.amount,
                                                        last.result.totalExpenses))

C9_Witness == last.result # Null /\ IsScenario(MonthTx(Store, last.key))

(* C10: when the only expense of a month is deleted while an income of the  *)
(* month remains, the recompute that follows stores totalExpenses = 0,      *)
(* netBalance = totalIncome and no breakdown for the month.                 *)
OnlyExpenseDeleted ==
    /\ last.op = "DELETE" /\ last.status = 204
    /\ last.old.type = "expense"
    /\ last.old \in MonthTx([Store EXCEPT !.transactions = @ \cup {last.old}],
                            last.key)
    /\ \A t \in MonthTx(Store, last.key) : t.type # "expense"
    /\ \E t \in MonthTx(Store, last.key) : t.type = "income"

C10_LastExpenseDeleted ==
    OnlyExpenseDeleted =>
        \E m \in monthlySummaries :
            /\ SummariesOf(Store, last.key) = {m}
            /\ m.totalExpenses = 0
            /\ m.totalIncome = IncomeOf(MonthTx(Store, last.key))
            /\ m.netBalance = m.totalIncome
            /\ getCategoryBreakdowns(Store, m.id) = {}

C10_Witness == OnlyExpenseDeleted /\ last.old.category = "Food"

----------------------------------------------------------------------------
(* C11: on both backends and for every time-zone offset of the process,     *)
(* getTransactionsByMonth(userId, year, month) returns exactly the user's   *)
(* transactions whose stored date-only string lies in that month, from its  *)
(* first to its last day: one dated 2024-03-31 is in March 2024 and one     *)
(* dated 2024-04-01 is not.                                                 *)
DatedIn(s, userId, year, month) ==
    {t \in s.transactions :
        t.userId = userId /\ t.date.y = year /\ t.date.m = month}

C11_MonthFilter ==
    \A d \in Dates :
        getTransactionsByMonth(Store, DemoUser, d.y, d.m)
            = DatedIn(Store, DemoUser, d.y, d.m)

----------------------------------------------------------------------------
(* C12: GET /summaries/{year}/{month} answers 404 whenever no summary is    *)
(* stored for the demo user and that month, in particular when no           *)
(* transaction was ever created, and otherwise answers the stored summary   *)
(* of that month together with exactly the breakdowns of that summary.      *)
Asked == last.op = "GET" /\ last.status # 400

C12_GetSummary ==
    Asked =>
        LET stored == MatchingSummaries(Store, DemoUser, last.params.year,
                                        last.params.month)
        IN  /\ transactionId = 1 => last.status = 404
            /\ stored = {} => last.status = 404
            /\ stored # {} =>
                   /\ last.status = 200
                   /\ last.summary \in stored
                   /\ last.breakdowns =
                          {b \in categoryBreakdowns : b.summaryId = last.summary.id}

\* summaries of two months with a breakdown each, and one of them is asked for
C12_Witness ==
    /\ Asked /\ last.status = 200
    /\ last.breakdowns # {}
    /\ categoryBreakdowns \ last.breakdowns # {}

\* asked before any transaction was created
C12_WitnessNone == Asked /\ last.status = 404 /\ transactionId = 1

----------------------------------------------------------------------------
(* C13: POST /upload-statement whose extracted text has no line matching    *)
(* the currency-amount pattern answers 400 and creates no transaction:      *)
(* transactions, summaries and breakdowns are left as they were.            *)
StoreUnchanged ==
    UNCHANGED <<transactions, monthlySummaries, categoryBreakdowns,
                transactionId, summaryId, breakdownId>>

\* the uploads whose text is extracted and has no line with an amount
WithoutAmounts ==
    {u \in Uploads :
        /\ u.pdfContent /\ u.parses
        /\ \A i \in DOMAIN u.text : u.text[i].amount = NoAmount}

C13_UploadWithoutAmounts ==
    [][last'.op = "UPLOAD" =>
          \A u \in WithoutAmounts :
              UploadStatement(u) => (last'.status = 400 /\ StoreUnchanged)]_vars

\* such an upload was answered while the store held a summary
C13_Witness ==
    /\ last.op = "UPLOAD" /\ last.status = 400
    /\ last.message = "No transactions could be extracted"
    /\ monthlySummaries # {}

----------------------------------------------------------------------------
(* C14: POST /transactions with a body that fails schema validation         *)
(* answers 400 and leaves the store unchanged; with a valid body it         *)
(* creates exactly one transaction, recomputes the month of that            *)
(* transaction's date, and answers 201.                                     *)
WellFormed(body) ==
    /\ {"date", "description", "category", "amount", "type"} \subseteq DOMAIN body
    /\ body.category \in Range(categories)
    /\ body.type \in {"income", "expense"}

\* the month the date-only string of a transaction lies in
MonthOf(t) == Key(t.date.y, t.date.m)

\* the store after the step holds a summary of month k that says what the
\* month's transactions aggregate to
RecomputedAfter(k) ==
    /\ SummariesOf(Store', k) # {}
    /\ \A m \in SummariesOf(Store', k) : Reflects(Store', m, MonthTx(Store', k))

Created(body) ==
    /\ last'.status = 201
    /\ last'.tx \notin transactions
    /\ \A t \in transactions : t.id # last'.tx.id
    /\ transactions' = transactions \cup {last'.tx}
    /\ last'.tx.date = body.date
    /\ \A f \in {"description", "category", "amount", "type"} :
           last'.tx[f] = body[f]
    /\ last'.key = MonthOf(last'.tx)
    /\ RecomputedAfter(MonthOf(last'.tx))

C14_PostTransaction ==
    [][\A body \in PostBodies :
          PostTransaction(body) =>
              IF WellFormed(body) THEN Created(body)
              ELSE last'.status = 400 /\ StoreUnchanged]_vars

----------------------------------------------------------------------------
(* C15: PUT /transactions/{id} answers 404 when no transaction has that id  *)
(* and 400 when the partial body fails validation; in both cases every      *)
(* stored transaction, summary and breakdown is left unchanged.             *)
Known(id) == \E t \in transactions : t.id = id

WellFormedPartial(body) ==
    /\ "category" \in DOMAIN body => body.category \in Range(categories)
    /\ "type" \in DOMAIN body => body.type \in {"income", "expense"}

C15_PutRejected ==
    [][last'.op = "PUT" =>
          \A id \in 1..transactionId, body \in PutBodies :
              ((~Known(id) \/ ~WellFormedPartial(body)) /\ PutTransaction(id, body))
                  => /\ last'.status = IF Known(id) THEN 400 ELSE 404
                     /\ StoreUnchanged]_vars

\* a PUT with an invalid body was rejected while the store held its target
C15_Witness ==
    /\ last.op = "PUT" /\ last.status = 400
    /\ last.old \in transactions
    /\ monthlySummaries # {}

\* a PUT to an id that no transaction has, on a store that is not empty
C15_WitnessUnknown ==
    /\ last.op = "PUT" /\ last.status = 404
    /\ transactions # {}

----------------------------------------------------------------------------
(* C16: DELETE /transactions/{id} answers 404 and changes nothing when the  *)
(* id is unknown; when the transaction exists it removes exactly that       *)
(* transaction, recomputes the month of the deleted transaction and         *)
(* answers 204, and afterwards no list or get operation returns it.         *)
Removed(t) ==
    /\ last'.status = 204
    /\ transactions' = transactions \ {t}
    /\ getTransactionById(Store', t.id) = Null
    /\ \A k \in Months : t \notin MonthTx(Store', k)

\* the summary of the month of t says what is left in that month
MonthRecomputed(t) ==
    /\ last'.key = MonthOf(t)
    /\ \A m \in SummariesOf(Store', MonthOf(t)) :
           Reflects(Store', m, MonthTx(Store', MonthOf(t)))

C16_DeleteTransaction ==
    [][\A id \in 1..transactionId :
          DeleteTransaction(id) =>
              IF Known(id)
              THEN LET t == CHOOSE x \in transactions : x.id = id
                   IN  Removed(t) /\ MonthRecomputed(t)
              ELSE last'.status = 404 /\ StoreUnchanged]_vars

----------------------------------------------------------------------------
(* The store called directly.  IStorage is an interface of its own: a       *)
(* caller may pass ids and keys that no handler passes.  StoreSpec runs     *)
(* the write operations of both backends on such arguments, one call after  *)
(* the other.                                                               *)

MaxStoreOps == 3

\* the parsed body of a created transaction
NewTransactions == {Coerced(Body(D(2024, 3, 31), Shape("expense", "Food", -20000)))}

\* partial updates: each field is supplied by one and left out by another
Partials ==
    {[date |-> ParseDate(D(2024, 4, 1)), category |-> "Housing", amount |-> -4500],
     [description |-> "edited", type |-> "income", pdfSource |-> "Uploaded PDF"],
     << >>}

\* summaries are upserted for this month
UpsertKeys == {Key(2024, 3)}

\* summary ids the breakdowns are replaced for, stored or not
SummaryIds == {1, 2}

Given(category, amount, percentage) ==
    [category |-> category, amount |-> amount, percentage |-> percentage]

\* 15.625 % is kept as it is by the volatile backend and at two decimals
\* by the durable one
NewBreakdowns ==
    {<< >>,
     <<Given("Food", 5000, 15625), Given("Housing", 27000, 84375)>>}

\* what the last call was and what it returned
Called(op, args, result) ==
    [op |-> op, status |-> 0, old |-> Null, tx |-> Null, key |-> Null,
     args |-> args, result |-> result]

CallCreateTransaction(data) ==
    /\ clock < MaxStoreOps
    /\ LET r == createTransaction(Store, DemoUser, data, clock)
       IN  Answer(r.store, Called("createTransaction", data, r.result))

CallUpdateTransaction(id, updateData) ==
    /\ clock < MaxStoreOps
    /\ LET r == updateTransaction(Store, id, updateData)
       IN  Answer(r.store,
                  Called("updateTransaction",
                         [id |-> id, updateData |-> updateData], r.result))

CallDeleteTransaction(id) ==
    /\ clock < MaxStoreOps
    /\ LET r == deleteTransaction(Store, id)
       IN  Answer(r.store, Called("deleteTransaction", [id |-> id], r.result))

CallCreateOrUpdateMonthlySummary(k, totals) ==
    /\ clock < MaxStoreOps
    /\ LET data == [year          |-> k.year,
                    month         |-> k.month,
                    totalIncome   |-> totals.totalIncome,
                    totalExpenses |-> totals.totalExpenses,
                    netBalance    |-> totals.netBalance]
           r    == createOrUpdateMonthlySummary(Store, DemoUser, data, clock)
       IN  Answer(r.store, Called("createOrUpdateMonthlySummary", data, r.result))

CallUpdateCategoryBreakdowns(sid, new) ==
    /\ clock < MaxStoreOps
    /\ Answer(updateCategoryBreakdowns(Store, sid, new),
              Called("updateCategoryBreakdowns", [summaryId |-> sid, new |-> new],
                     updateCategoryBreakdownsResults(Store, sid, new)))

StoreNext ==
    \/ \E data \in NewTransactions : CallCreateTransaction(data)
    \/ \E id \in 1..transactionId, updateData \in Partials :
           CallUpdateTransaction(id, updateData)
    \/ \E id \in 1..transactionId : CallDeleteTransaction(id)
    \/ \E k \in UpsertKeys : CallCreateOrUpdateMonthlySummary(k, SomeTotals)
    \/ \E sid \in SummaryIds, new \in NewBreakdowns :
           CallUpdateCategoryBreakdowns(sid, new)

StoreSpec == Init /\ [][StoreNext]_vars

----------------------------------------------------------------------------
(* C17: updateTransaction(id, partialData) on an existing transaction       *)
(* overwrites only the fields present in partialData: every field not       *)
(* supplied, and the id, userId and createdAt, keep their value, and every  *)
(* other transaction of the store is unchanged.                             *)
\* the value a supplied field is stored as
Supplied(data, f) == IF f = "date" THEN dateToString(data.date) ELSE data[f]

\* t with the fields of data laid over it and every other field as it was
Overwritten(t, data) ==
    [f \in DOMAIN t |-> IF f \in DOMAIN data THEN Supplied(data, f) ELSE t[f]]

OnlySuppliedOverwritten(t, data) ==
    LET updated == updateTransaction(Store, t.id, data) IN
    /\ updated.store =
           [Store EXCEPT !.transactions = (@ \ {t}) \cup {Overwritten(t, data)}]
    /\ updated.result # Null => updated.result = Overwritten(t, data)

C17_UpdateOnlySupplied ==
    /\ \A t \in transactions : \A data \in Partials :
           OnlySuppliedOverwritten(t, data)
    /\ (last.op = "updateTransaction" /\ last.result # Null) =>
           /\ last.result \in transactions
           /\ last.result.id = last.args.id
           /\ \A f \in DOMAIN last.args.updateData :
                  last.result[f] = Supplied(last.args.updateData, f)

\* the last call has overwritten the date, category and amount of one of two
\* stored transactions
C17_Witness ==
    /\ last.op = "updateTransaction" /\ last.result # Null
    /\ "category" \in DOMAIN last.args.updateData
    /\ last.result.category = "Housing" /\ last.result.description = "manual"
    /\ \E t \in transactions : t.id # last.result.id

----------------------------------------------------------------------------
(* C18: updateCategoryBreakdowns(summaryId, newBreakdowns) leaves for that  *)
(* summaryId exactly the breakdowns given (none of the previous ones),      *)
(* returns exactly the inserted set, and leaves the breakdowns of every     *)
(* other summary unchanged.                                                 *)
AsStored(g) == [g EXCEPT !.percentage = StoredPercentage(@)]

Replaced(sid, new) ==
    LET after    == updateCategoryBreakdowns(Store, sid, new)
        returned == updateCategoryBreakdownsResults(Store, sid, new)
        others   == {b \in categoryBreakdowns : b.summaryId # sid}
        now      == after.categoryBreakdowns \ others
    IN  /\ others \subseteq after.categoryBreakdowns
        /\ \A b \in now : b.summaryId = sid /\ b.id >= breakdownId
        /\ {BreakdownValue(b) : b \in now} = {AsStored(new[i]) : i \in DOMAIN new}
        /\ Cardinality(now) = Len(new)
        /\ Range(returned) = now /\ Len(returned) = Len(new)
        /\ after.transactions = transactions
        /\ after.monthlySummaries = monthlySummaries

C18_ReplaceBreakdowns ==
    /\ \A sid \in SummaryIds : \A new \in NewBreakdowns : Replaced(sid, new)
    /\ last.op = "updateCategoryBreakdowns" =>
           Range(last.result) = getCategoryBreakdowns(Store, last.args.summaryId)

\* the last call has replaced the two breakdowns of a summary by two new
\* ones, while another summary has breakdowns of its own
C18_Witness ==
    /\ last.op = "updateCategoryBreakdowns" /\ Len(last.result) = 2
    /\ \A i \in DOMAIN last.result : last.result[i].id > 4
    /\ \E c \in categoryBreakdowns : c.summaryId # last.args.summaryId

----------------------------------------------------------------------------
(* C19: store operations called with an id or key that matches nothing do   *)
(* not fail and do not change the store: getUser, getUserByUsername,        *)
(* getTransactionById and getMonthlySummaryByMonth return undefined,        *)
(* updateTransaction returns undefined, deleteTransaction returns false,    *)
(* and the list operations return an empty list.                            *)
NoUser == DemoUser + 1

\* a month in which the model dates no transaction
NoMonth == Key(2024, 5)

UnknownIds == {id \in 1..transactionId : ~Known(id)}

C19_NotFound ==
    /\ getUser(NoUser) = Null
    /\ getUserByUsername("nobody") = Null
    /\ \A id \in UnknownIds :
           /\ getTransactionById(Store, id) = Null
           /\ \A data \in Partials :
                  updateTransaction(Store, id, data) = [store |-> Store, result |-> Null]
           /\ deleteTransaction(Store, id) = [store |-> Store, result |-> FALSE]
    /\ \A k \in Months :
           /\ getMonthlySummaryByMonth(Store, NoUser, k.year, k.month) = Null
           /\ getTransactionsByMonth(Store, NoUser, k.year, k.month) = {}
    /\ getMonthlySummaryByMonth(Store, DemoUser, NoMonth.year, NoMonth.month) = Null
    /\ getTransactionsByMonth(Store, DemoUser, NoMonth.year, NoMonth.month) = {}
    /\ getTransactions(Store, NoUser) = {}
    /\ getMonthlySummaries(Store, NoUser) = {}
    /\ \A sid \in SummaryIds \cup {summaryId} :
           (\A b \in categoryBreakdowns : b.summaryId # sid) =>
               getCategoryBreakdowns(Store, sid) = {}

\* the last call was to delete a transaction that is not stored, while the
\* store holds a transaction and a summary
C19_Witness ==
    /\ last.op = "deleteTransaction" /\ last.result = FALSE
    /\ transactions # {} /\ monthlySummaries # {}

----------------------------------------------------------------------------
(* C20: when the persistence layer of the durable backend fails during a    *)
(* write (createTransaction, updateTransaction, deleteTransaction,          *)
(* createOrUpdateMonthlySummary, updateCategoryBreakdowns), the store       *)
(* operation propagates an error and the handler that issued it answers     *)
(* 500, never a success status.                                             *)
WriteFailed == last.op # "none" /\ last.failed

C20_WriteFailureAnswers500 ==
    WriteFailed => last.status = 500

----------------------------------------------------------------------------
(* C21: a failure of statement extraction in POST /upload-statement (the   *)
(* document cannot be parsed, or no transaction is found in it) is          *)
(* answered with a client error (4xx) and never with a server error (5xx).  *)
\* with a working store, 'Failed to process PDF' is the answer to the error
\* extractPdfContent throws
ExtractionFailed ==
    /\ last.op = "UPLOAD"
    /\ last.message \in {"Failed to process PDF", "No transactions could be extracted"}

C21_ExtractionFailureIs4xx ==
    ExtractionFailed => last.status \in 400..499

\* the part that holds: a parsed document without transactions
C21_NothingExtractedIs400 ==
    (last.op = "UPLOAD" /\ last.message = "No transactions could be extracted")
        => last.status = 400

----------------------------------------------------------------------------
(* Entries the schema lets through.  insertTransactionSchema checks the     *)
(* type and the category against their enums and coerces the amount to a    *)
(* number; it does not relate them.  EntrySpec sends the handlers, at UTC,  *)
(* bodies that a careful client would not send: an income with a negative   *)
(* amount, an expense of one cent next to one of 250.00, a change of the    *)
(* type or of the amount alone.                                             *)

EntryShapes ==
    {Shape("expense", "Food", -1),
     Shape("expense", "Housing", -25000),
     Shape("income", "Income", -5000)}

EntryBodies == {Body(D(2024, 3, 31), sh) : sh \in EntryShapes}

EntryPartials == {[type |-> "income"], [amount |-> 0]}

\* the statements in which a transaction is found
EntryUploads ==
    {u \in Uploads : u.parses /\ extractTransactions(u.text, ParseDate(Today)) # << >>}

EntryInit == Init /\ tz = 0

EntryNext ==
    \/ \E body \in EntryBodies : PostTransaction(body)
    \/ \E id \in 1..transactionId, body \in EntryPartials : PutTransaction(id, body)
    \/ \E id \in 1..transactionId : DeleteTransaction(id)
    \/ \E upload \in EntryUploads : UploadStatement(upload)

EntrySpec == EntryInit /\ [][EntryNext]_vars

----------------------------------------------------------------------------
(* C22: for every transaction in the store, after any sequence of create,   *)
(* update and import requests, the type tag and the sign of the amount      *)
(* agree: type income implies amount >= 0 and type expense implies          *)
(* amount <= 0.                                                             *)
SignAgrees(t) ==
    /\ t.type = "income" => t.amount >= 0
    /\ t.type = "expense" => t.amount <= 0

C22_TypeAndSignAgree ==
    \A t \in transactions : SignAgrees(t)

\* the part that holds: the transactions an import creates
C22_ImportAgrees ==
    [][last'.op = "UPLOAD" => \A t \in transactions' \ transactions : SignAgrees(t)]_vars

----------------------------------------------------------------------------
(* C25: when the month's transaction set is empty, recompute returns no     *)
(* summary (null) and writes nothing: a summary and breakdowns previously   *)
(* stored for that (user, year, month), and all other summaries and         *)
(* breakdowns, are left exactly as they were.                               *)
EmptyMonths == {k \in Months \cup {NoMonth} : MonthTx(Store, k) = {}}

C25_EmptyMonthWritesNothing ==
    /\ \A k \in EmptyMonths :
           Recompute(Store, k, clock) = [store |-> Store, result |-> Null]
    /\ (Recomputed /\ last.key \in EmptyMonths) => last.result = Null

\* a request has recomputed a month it left empty: the month keeps its
\* summary and breakdowns, and another month has a summary of its own
C25_Witness ==
    /\ Recomputed /\ last.key \in EmptyMonths /\ last.result = Null
    /\ \E m \in SummariesOf(Store, last.key) :
           getCategoryBreakdowns(Store, m.id) # {}
    /\ \E m \in monthlySummaries : m \notin SummariesOf(Store, last.key)

----------------------------------------------------------------------------
(* C28: what recompute builds for the month k, and what it divides by.      *)
(* A percentage is computed as a JS number and stored as the column keeps   *)
(* it; the amounts of the model keep every computed percentage above the    *)
(* model's resolution of 1/PctUnits percent.                                *)
Built(s, k) ==
    LET txs == MonthTx(s, k) IN Breakdowns(txs, TotalExpenses(txs), categories)

\* every entry is built for an amount > 0 and divides by a total > 0
DividesByPositive(s, k) ==
    \A i \in DOMAIN Built(s, k) :
        /\ Built(s, k)[i].amount > 0
        /\ TotalExpenses(MonthTx(s, k)) > 0
        /\ Built(s, k)[i].percentage # NotANumber
        /\ Built(s, k)[i].percentage > 0
        /\ Built(s, k)[i].percentage <= 100 * PctUnits

\* a recompute that found no expenses left no breakdown
NoExpensesNoBreakdowns ==
    (last.result # Null /\ last.result.totalExpenses = 0) =>
        getCategoryBreakdowns(Store, last.result.id) = {}

C28_WitnessRounded ==
    \E b \in categoryBreakdowns : b.amount = 1 /\ b.percentage = 0

----------------------------------------------------------------------------
(* extractTransactions applied to a text.  The function reads its argument  *)
(* and the clock only; ExtractSpec calls it once on every text of up to     *)
(* MaxLines lines drawn from TextLines.  A blank line is dropped by the     *)
(* filter before the loop and, like any line without "$d.dd", yields        *)
(* nothing.                                                                 *)

MaxLines == 2

TextLines ==
    {Line("", NoAmount, {}),
     Line("opening balance", NoAmount, {}),
     Line("salary pending", NoAmount, {"salary"}),
     Line("rent deposit $270.00", 27000, {"rent", "deposit"}),
     Line("gas and food $9.00", 900, {"gas", "food"}),
     Line("uber $12.50", 1250, {"uber"}),
     Line("grocery $50.00", 5000, {"grocery"}),
     Line("phone $30.00", 3000, {"phone"}),
     Line("salary $1000.00", 100000, {"salary"}),
     Line("transfer in $5.00", 500, {"transfer in"}),
     Line("atm $20.00", 2000, {}),
     Line("fee waived $0.00", 0, {})}

Texts == UNION {[1..n -> TextLines] : n \in 0..MaxLines}

CallExtractTransactions(text) ==
    /\ last.op = "none"
    /\ Answer(Store, Called("extractTransactions", [text |-> text],
                            extractTransactions(text, ParseDate(Today))))

ExtractInit == Init /\ backend = "mem" /\ tz = 0

ExtractNext == \E text \in Texts : CallExtractTransactions(text)

ExtractSpec == ExtractInit /\ [][ExtractNext]_vars

----------------------------------------------------------------------------
(* C30: the rules of extractTransactions, stated on the text given and the  *)
(* candidates returned.                                                     *)
IncomeWords == {"deposit", "salary", "income", "transfer in"}

CategoryRules ==
    <<[category |-> "Housing", keywords |-> {"rent", "mortgage", "home"}],
      [category |-> "Transportation",
       keywords |-> {"car", "gas", "uber", "lyft", "transit"}],
      [category |-> "Food", keywords |-> {"grocery", "restaurant", "food"}],
      [category |-> "Utilities",
       keywords |-> {"electric", "water", "phone", "internet"}],
      [category |-> "Income", keywords |-> {"salary", "deposit", "income"}]>>

\* the category of the first rule, in the fixed order, that matches the line
FirstMatch(line) ==
    LET hits == {i \in DOMAIN CategoryRules :
                    line.words \cap CategoryRules[i].keywords # {}}
    IN  IF hits = {} THEN "Other"
        ELSE CategoryRules[CHOOSE i \in hits : \A j \in hits : i <= j].category

MatchesAmount(line) == line.amount # NoAmount

\* the lines that match the currency-amount pattern, in the order of the text
AmountLines(text) == SelectSeq(text, MatchesAmount)

Extracted == last.op = "extractTransactions"

\* one candidate for each line with an amount and none for the others, each
\* with the type and the category the rules give its line
OnePerAmountLine ==
    LET lines == AmountLines(last.args.text) IN
    /\ Len(last.result) = Len(lines)
    /\ \A i \in DOMAIN lines :
           /\ last.result[i].description = lines[i].text
           /\ last.result[i].type = "income" <=> lines[i].words \cap IncomeWords # {}
           /\ last.result[i].type \in TransactionTypes
           /\ last.result[i].category = FirstMatch(lines[i])

(* C30: extractTransactions produces one candidate for each non-empty line  *)
(* that matches the currency-amount pattern and none for other lines; each  *)
(* candidate's type is income iff the line contains deposit, salary, income *)
(* or "transfer in", its amount is positive for income and negative for     *)
(* expense, and its category is decided by the first matching rule in the   *)
(* fixed order Housing, Transportation, Food, Utilities, Income, else       *)
(* Other.                                                                   *)
C30_AmountPositiveOrNegative ==
    Extracted =>
        /\ OnePerAmountLine
        /\ \A i \in DOMAIN last.result :
               IF last.result[i].type = "income"
               THEN last.result[i].amount > 0
               ELSE last.result[i].amount < 0

(* C30, with the amount of a line that reads $0.00: the candidates, their   *)
(* types and their categories are as above, and the amount of a candidate   *)
(* is the amount matched in its line for income and its negation for        *)
(* expense: positive or negative when the line's amount is not 0.00, and 0  *)
(* when it is.                                                              *)
C30_ExtractionRules ==
    Extracted =>
        /\ OnePerAmountLine
        /\ \A i \in DOMAIN last.result :
               LET matched == AmountLines(last.args.text)[i].amount IN
               /\ matched >= 0
               /\ last.result[i].amount =
                      IF last.result[i].type = "income" THEN matched ELSE -matched

\* a text of a line without amount and a line that matches both a Housing
\* and an Income keyword: one candidate, an income filed under Housing
C30_Witness ==
    /\ Extracted
    /\ Len(last.args.text) = 2 /\ Len(last.result) = 1
    /\ last.result[1].type = "income" /\ last.result[1].category = "Housing"
    /\ last.result[1].amount = 27000

----------------------------------------------------------------------------
(* createUser called directly.  No route creates a user; UserSpec calls     *)
(* the operation of both backends, on the store that holds the demo user,   *)
(* with usernames that are stored and usernames that are not.               *)

MaxUserOps == 3

InsertUsers ==
    {[username |-> "demo", password |-> "other"],
     [username |-> "ann", password |-> "secret"],
     [username |-> "ann", password |-> "again"],
     [username |-> "bob", password |-> "secret"]}

CallCreateUser(insertUser) ==
    /\ clock < MaxUserOps
    /\ LET r == createUser(users, nextUserId, insertUser) IN
       /\ users' = r.users
       /\ nextUserId' = r.nextUserId
       /\ last' = [op |-> "createUser", args |-> insertUser, result |-> r.result,
                   threw |-> r.threw, existed |-> getUserByUsername(insertUser.username)]
    /\ clock' = clock + 1
    /\ UNCHANGED <<backend, tz, storageInstance, instances, requests>>
    /\ StoreUnchanged

UserInit == Init /\ tz = 0

UserNext == \E insertUser \in InsertUsers : CallCreateUser(insertUser)

UserSpec == UserInit /\ [][UserNext]_vars

----------------------------------------------------------------------------
(* C23: usernames are unique: after any sequence of createUser calls no two *)
(* stored users have the same username, and a createUser call with a        *)
(* username that already exists fails with a thrown error and stores no     *)
(* second user, on both backends.                                           *)
UniqueUsernames ==
    \A u1, u2 \in users : u1.username = u2.username => u1 = u2

\* the last call was given a username that was stored
CreatedExisting == last.op = "createUser" /\ last.existed # Null

C23_UsernamesUnique ==
    /\ UniqueUsernames
    /\ CreatedExisting =>
           /\ last.threw
           /\ {u \in users : u.username = last.args.username} = {last.existed}

\* the part that holds: the durable backend, whose table has the constraint
C23_UsernamesUniqueDurable ==
    backend = "pg" => C23_UsernamesUnique

----------------------------------------------------------------------------
(* getStorage at process start.  Without DATABASE_URL createStorage awaits  *)
(* nothing that takes a turn of the event loop, so a call of getStorage     *)
(* runs to its return before another request is served.  With DATABASE_URL  *)
(* it awaits queries: the test query of createStorage (whose errors         *)
(* PostgresStorage.getUserByUsername swallows, so the PostgresStorage       *)
(* object is returned in every case), the lookup of the demo user and its   *)
(* insert.  Another request may call getStorage at each of these points.    *)
(* A PostgresStorage object has no state of its own: every such object      *)
(* reads and writes the tables, which the store variables stand for.        *)
(* A request that got its instance creates a transaction through it.        *)

MaxCalls == 3

\* a call of getStorage in flight, or the request past it
Call(pc, initializes, existingUser, storage, wrote) ==
    [pc |-> pc, initializes |-> initializes, existingUser |-> existingUser,
     storage |-> storage, wrote |-> wrote]

SetCall(r, call) == requests' = [requests EXCEPT ![r] = call]

\* the request proceeds to the position pc
Proceed(r, pc) == SetCall(r, [requests[r] EXCEPT !.pc = pc])

\* if (!storageInstance): the volatile backend constructs the MemStorage,
\* which creates its demo user, and returns it before anything else runs;
\* the durable backend issues the test query of createStorage
CallGetStorage ==
    /\ Len(requests) < MaxCalls
    /\ IF storageInstance # 0
       THEN /\ requests' = Append(requests,
                                  Call("returned", FALSE, Null, storageInstance, Null))
            /\ UNCHANGED <<storageInstance, instances, users, nextUserId>>
       ELSE IF backend = "mem"
       THEN LET created == createUser(users, nextUserId, DemoInsertUser) IN
            /\ instances' = Append(instances, [kind |-> "mem"])
            /\ storageInstance' = Len(instances) + 1
            /\ users' = created.users
            /\ nextUserId' = created.nextUserId
            /\ requests' = Append(requests,
                                  Call("returned", TRUE, Null, Len(instances) + 1, Null))
       ELSE /\ requests' = Append(requests, Call("connecting", TRUE, Null, 0, Null))
            /\ UNCHANGED <<storageInstance, instances, users, nextUserId>>
    /\ UNCHANGED <<backend, tz, clock, last>>
    /\ StoreUnchanged

\* storageInstance = await createStorage(), and the lookup of the demo user
\* is issued on the instance just assigned
Connected(r) ==
    /\ requests[r].pc = "connecting"
    /\ instances' = Append(instances, [kind |-> "pg"])
    /\ storageInstance' = Len(instances) + 1
    /\ Proceed(r, "lookup")
    /\ UNCHANGED <<backend, tz, users, nextUserId, clock, last>>
    /\ StoreUnchanged

\* the database answers storageInstance.getUserByUsername('demo')
LookedUp(r) ==
    /\ requests[r].pc = "lookup"
    /\ SetCall(r, [requests[r] EXCEPT !.pc = "looked",
                                      !.existingUser = getUserByUsername("demo")])
    /\ UNCHANGED <<backend, tz, storageInstance, instances, users, nextUserId,
                   clock, last>>
    /\ StoreUnchanged

\* if (!existingUser) await storageInstance.createUser(...), issued now;
\* otherwise return storageInstance, the handle as it is now
Checked(r) ==
    /\ requests[r].pc = "looked"
    /\ IF requests[r].existingUser = Null
       THEN Proceed(r, "creating")
       ELSE SetCall(r, [requests[r] EXCEPT !.pc = "returned",
                                           !.storage = storageInstance])
    /\ UNCHANGED <<backend, tz, storageInstance, instances, users, nextUserId,
                   clock, last>>
    /\ StoreUnchanged

\* the database executes the insert of the demo user; a rejected insert is
\* rethrown by createUser and leaves getStorage as a rejection
Inserted(r) ==
    /\ requests[r].pc = "creating"
    /\ LET created == createUser(users, nextUserId, DemoInsertUser) IN
       /\ users' = created.users
       /\ nextUserId' = created.nextUserId
       /\ Proceed(r, IF created.threw THEN "threw" ELSE "created")
    /\ UNCHANGED <<backend, tz, storageInstance, instances, clock, last>>
    /\ StoreUnchanged

\* return storageInstance, the handle as it is now
Returned(r) ==
    /\ requests[r].pc = "created"
    /\ SetCall(r, [requests[r] EXCEPT !.pc = "returned",
                                      !.storage = storageInstance])
    /\ UNCHANGED <<backend, tz, storageInstance, instances, users, nextUserId,
                   clock, last>>
    /\ StoreUnchanged

\* the request creates a transaction through the instance it was given
WroteThrough(r) ==
    /\ requests[r].pc = "returned"
    /\ \E data \in NewTransactions :
           LET created == createTransaction(Store, DemoUser, data, clock) IN
           /\ SetStore(created.store)
           /\ SetCall(r, [requests[r] EXCEPT !.pc = "done",
                                             !.wrote = created.result])
    /\ clock' = clock + 1
    /\ UNCHANGED <<backend, tz, storageInstance, instances, users, nextUserId, last>>

\* the process starts: no handle, no storage object; the tables of the
\* database hold the demo user of an earlier run, or nothing; the maps of
\* the MemStorage to come are empty
StartInit ==
    /\ backend \in {"mem", "pg"}
    /\ tz = 0
    /\ storageInstance = 0
    /\ instances = << >>
    /\ requests = << >>
    /\ users \in IF backend = "pg" THEN {{}, DemoUsers} ELSE {{}}
    /\ nextUserId = IF users = {} THEN 1 ELSE DemoUser + 1
    /\ transactions = EmptyStore.transactions
    /\ monthlySummaries = EmptyStore.monthlySummaries
    /\ categoryBreakdowns = EmptyStore.categoryBreakdowns
    /\ transactionId = EmptyStore.transactionId
    /\ summaryId = EmptyStore.summaryId
    /\ breakdownId = EmptyStore.breakdownId
    /\ clock = 0
    /\ last = Response("none", 0, Null, Null, Null, Null)

StartNext ==
    \/ CallGetStorage
    \/ \E r \in DOMAIN requests : Connected(r)
    \/ \E r \in DOMAIN requests : LookedUp(r)
    \/ \E r \in DOMAIN requests : Checked(r)
    \/ \E r \in DOMAIN requests : Inserted(r)
    \/ \E r \in DOMAIN requests : Returned(r)
    \/ \E r \in DOMAIN requests : WroteThrough(r)

StartSpec == StartInit /\ [][StartNext]_vars

----------------------------------------------------------------------------
(* C24: there is exactly one store instance per process lifetime: every     *)
(* call of getStorage, including calls from requests that overlap while     *)
(* the first call is still initializing, returns the same instance, the     *)
(* demo user is created at most once, and no data written through one       *)
(* returned instance is invisible to later requests.                        *)
CallsAt(pcs) == {r \in DOMAIN requests : requests[r].pc \in pcs}

\* the demo user is stored at most once
DemoUserOnce == Cardinality({u \in users : u.username = "demo"}) <= 1

\* what was written through an instance is in the store later requests read
WritesVisible ==
    \A r \in CallsAt({"done"}) : requests[r].wrote \in getTransactions(Store, DemoUser)

C24_OneStoreInstance ==
    /\ Len(instances) <= 1
    /\ CallsAt({"threw"}) = {}
    /\ \A r1, r2 \in CallsAt({"returned", "done"}) :
           requests[r1].storage = requests[r2].storage
    /\ DemoUserOnce
    /\ WritesVisible

\* the part that holds in every case: one demo user, every write visible
C24_OneDatabase == DemoUserOnce /\ WritesVisible

\* the part that holds of calls that do not overlap: at most one call found
\* the handle null
C24_WithoutOverlap ==
    Cardinality({r \in DOMAIN requests : requests[r].initializes}) <= 1
        => C24_OneStoreInstance

----------------------------------------------------------------------------
(* Requests in flight on the durable backend.  A handler runs until it      *)
(* awaits a query; the database executes the queries one at a time, in any  *)
(* order across requests, and the handler resumes with the result.  One     *)
(* step of a request is the execution of the query it awaits together with  *)
(* the code that runs until its next query is issued or its response is     *)
(* sent.  No handler opens a database transaction, so every query is a      *)
(* statement of its own.  The position of a request is named after the      *)
(* query it awaits.  A request may carry a fault: the write operation       *)
(* whose first statement the database rejects while it is served.           *)

Request(op, params, fault) ==
    [op |-> op, params |-> params, fault |-> fault, pc |-> "start",
     alone |-> TRUE, transaction |-> Null, pending |-> << >>, saved |-> << >>,
     key |-> Null, txs |-> {}, existing |-> Null, summary |-> Null,
     status |-> 0, responses |-> 0, answer |-> Null]

\* res.status(status).json(...) / .end() / .send(...): one response sent
Responded(req, status) ==
    [req EXCEPT !.pc = "done", !.status = status, !.responses = @ + 1]

At(req, pc) == [req EXCEPT !.pc = pc]

\* the status of the response that ends the try block of a mutating handler
SuccessStatus(op) ==
    IF op \in {"POST", "UPLOAD"} THEN 201 ELSE IF op = "DELETE" THEN 204 ELSE 200

\* parseInt(req.params.month) is no month
InvalidMonth(params) == params.month < 1 \/ params.month > 12

\* await getStorage(), then the first query: a rejected getStorage is
\* caught by the handler, which answers 500
Stored(req, pc) ==
    IF req.fault = "getStorage" THEN Responded(req, 500) ELSE At(req, pc)

\* the handler up to its first awaited query
Started(req) ==
    CASE req.op = "POST" ->
             IF ParsesAsInsert(req.params.body)
             THEN Stored(req, "createTransaction") ELSE Responded(req, 400)
      [] req.op \in {"PUT", "DELETE"} -> Stored(req, "getTransactionById")
      [] req.op = "UPLOAD" ->
             IF req.params.upload.pdfContent
             THEN At(req, "extractPdfContent") ELSE Responded(req, 400)
      [] req.op = "GET" ->
             IF InvalidMonth(req.params)
             THEN Responded(req, 400) ELSE Stored(req, "getMonthlySummaryByMonth")
      [] req.op = "LIST" -> Stored(req, "getTransactions")
      [] req.op = "MONTH" ->
             IF InvalidMonth(req.params)
             THEN Responded(req, 400) ELSE Stored(req, "list.getTransactionsByMonth")
      [] req.op = "SUMMARIES" -> Stored(req, "getMonthlySummaries")
      [] req.op = "EXPORT" ->
             IF InvalidMonth(req.params)
             THEN Responded(req, 400) ELSE Stored(req, "export.getTransactionsByMonth")
      [] req.op = "CATEGORIES" -> Responded(req, 200)

InFlight == {r \in DOMAIN requests : requests[r].pc # "done"}

\* the request r becomes req and the database s.  (The steps below bind
\* what a query returns with \E over a singleton: the value is computed
\* once, where a LET would compute it again at every use.)
Advance(r, req, s) ==
    /\ requests' = [requests EXCEPT ![r] = req]
    /\ SetStore(s)
    /\ UNCHANGED <<backend, tz, storageInstance, instances, users, nextUserId,
                   clock, last>>

\* a request arrives while the earlier ones are where they are; it and the
\* requests in flight are then no longer served alone
Arrive(req) ==
    /\ requests' = Append([i \in DOMAIN requests |->
                               IF i \in InFlight
                               THEN [requests[i] EXCEPT !.alone = FALSE]
                               ELSE requests[i]],
                           [Started(req) EXCEPT !.alone = InFlight = {}])
    /\ clock' = clock + 1
    /\ UNCHANGED <<backend, tz, storageInstance, instances, users, nextUserId, last>>
    /\ StoreUnchanged

\* recompute is called for the month of date
Recomputing(req, date) ==
    [req EXCEPT !.pc = "getTransactionsByMonth", !.key = HandlerMonth(date)]

\* POST: storage.createTransaction(userId, validatedData)
CreateTransactionStep(r) ==
    /\ requests[r].pc = "createTransaction"
    /\ \E req \in {requests[r]} :
          IF req.fault = "createTransaction"
          THEN Advance(r, Responded(req, 500), Store)
          ELSE \E created \in {createTransaction(Store, DemoUser,
                                                  Coerced(req.params.body), clock)} :
                  Advance(r, Recomputing([req EXCEPT !.transaction = created.result],
                                         created.result.date),
                          created.store)

\* storage.getTransactionById(id) with a 404 that does not return
GetTransactionByIdStep_NoReturn(r) ==
    /\ requests[r].pc = "getTransactionById"
    /\ \E req \in {requests[r]} :
       \E found \in {getTransactionById(Store, req.params.id)} :
       \E next \in {IF req.op = "DELETE" THEN "deleteTransaction"
                    ELSE "updateTransaction"} :
          IF found = Null
          THEN Advance(r, [Responded(req, 404) EXCEPT !.pc = next], Store)
          ELSE IF req.op = "PUT" /\ ~ParsesAsPartial(req.params.body)
          THEN Advance(r, Responded(req, 400), Store)
          ELSE Advance(r, [req EXCEPT !.pc = next, !.transaction = found], Store)

\* PUT, DELETE: storage.getTransactionById(id), and the 404 and 400 answers
GetTransactionByIdStep(r) ==
    /\ requests[r].pc = "getTransactionById"
    /\ \E req \in {requests[r]} :
       \E found \in {getTransactionById(Store, req.params.id)} :
          IF found = Null THEN Advance(r, Responded(req, 404), Store)
          ELSE IF req.op = "DELETE"
          THEN Advance(r, [req EXCEPT !.pc = "deleteTransaction",
                                      !.transaction = found], Store)
          ELSE IF ~ParsesAsPartial(req.params.body)
          THEN Advance(r, Responded(req, 400), Store)
          ELSE Advance(r, [req EXCEPT !.pc = "updateTransaction",
                                      !.transaction = found], Store)

\* PUT: storage.updateTransaction(id, validatedData), then
\* updatedTransaction?.date || transaction.date
UpdateTransactionStep(r) ==
    /\ requests[r].pc = "updateTransaction"
    /\ \E req \in {requests[r]} :
       \E updated \in {updateTransactionOn(req.fault, Store, req.params.id,
                                           Coerced(req.params.body))} :
          Advance(r, Recomputing(req, IF updated.result # Null
                                      THEN updated.result.date
                                      ELSE req.transaction.date),
                  updated.store)

\* DELETE: storage.deleteTransaction(id)
DeleteTransactionStep(r) ==
    /\ requests[r].pc = "deleteTransaction"
    /\ \E req \in {requests[r]} :
       \E deleted \in {deleteTransactionOn(req.fault, Store, req.params.id)} :
          IF deleted.result
          THEN Advance(r, Recomputing(req, req.transaction.date), deleted.store)
          ELSE Advance(r, Responded(req, 500), deleted.store)

\* UPLOAD: extractPdfContent and extractTransactions
ExtractStep(r) ==
    /\ requests[r].pc = "extractPdfContent"
    /\ \E req \in {requests[r]} :
          IF ~req.params.upload.parses THEN Advance(r, Responded(req, 500), Store)
          ELSE \E extracted \in {extractTransactions(req.params.upload.text,
                                                      ParseDate(Today))} :
                  IF extracted = << >> THEN Advance(r, Responded(req, 400), Store)
                  ELSE Advance(r, [req EXCEPT !.pc = "upload.createTransaction",
                                              !.pending = extracted], Store)

\* a candidate as the loop passes it to createTransaction
Tagged(transaction) ==
    [f \in DOMAIN transaction \cup {"pdfSource"} |->
        IF f = "pdfSource" THEN "Uploaded PDF" ELSE transaction[f]]

\* UPLOAD: one storage.createTransaction of the loop
SaveStep(r) ==
    /\ requests[r].pc = "upload.createTransaction"
    /\ \E req \in {requests[r]} :
          IF req.fault = "createTransaction"
          THEN Advance(r, Responded(req, 500), Store)
          ELSE \E one \in {createTransaction(Store, DemoUser,
                                              Tagged(Head(req.pending)), clock)} :
               \E next \in {[req EXCEPT !.pending = Tail(@),
                                         !.saved = Append(@, one.result)]} :
                  Advance(r, IF next.pending = << >>
                             THEN Recomputing(next, next.saved[1].date) ELSE next,
                          one.store)

\* generateMonthlySummary: storage.getTransactionsByMonth, the early return
ReadMonthStep(r) ==
    /\ requests[r].pc = "getTransactionsByMonth"
    /\ \E req \in {requests[r]} :
       \E txs \in {getTransactionsByMonth(Store, DemoUser, req.key.year,
                                          req.key.month)} :
          IF txs = {} THEN Advance(r, Responded(req, SuccessStatus(req.op)), Store)
          ELSE Advance(r, [req EXCEPT !.pc = "upsert.getMonthlySummaryByMonth",
                                      !.txs = txs], Store)

\* createOrUpdateMonthlySummary: this.getMonthlySummaryByMonth(...)
FindSummaryStep(r) ==
    /\ requests[r].pc = "upsert.getMonthlySummaryByMonth"
    /\ \E req \in {requests[r]} :
       \E existing \in {getMonthlySummaryByMonth(Store, DemoUser, req.key.year,
                                                 req.key.month)} :
          Advance(r, [req EXCEPT !.pc = "upsert.write", !.existing = existing],
                  Store)

\* the totals generateMonthlySummary computed from the transactions it read
SummaryData(req) ==
    [year          |-> req.key.year,
     month         |-> req.key.month,
     totalIncome   |-> TotalIncome(req.txs),
     totalExpenses |-> TotalExpenses(req.txs),
     netBalance    |-> NetBalance(TotalIncome(req.txs), TotalExpenses(req.txs))]

\* db.update(monthlySummaries).set(...).where(id = existingSummary.id)
updateSummary(s, id, summaryData, now) ==
    LET row     == CHOOSE m \in s.monthlySummaries : m.id = id
        updated == [row EXCEPT !.year          = summaryData.year,
                               !.month         = summaryData.month,
                               !.totalIncome   = summaryData.totalIncome,
                               !.totalExpenses = summaryData.totalExpenses,
                               !.netBalance    = summaryData.netBalance,
                               !.lastUpdated   = now]
    IN  [store  |-> [s EXCEPT !.monthlySummaries = (@ \ {row}) \cup {updated}],
         result |-> updated]

\* db.insert(monthlySummaries).values({ ...dbData, userId })
insertSummary(s, userId, summaryData, now) ==
    LET summary == [id            |-> s.summaryId,
                    userId        |-> userId,
                    year          |-> summaryData.year,
                    month         |-> summaryData.month,
                    totalIncome   |-> summaryData.totalIncome,
                    totalExpenses |-> summaryData.totalExpenses,
                    netBalance    |-> summaryData.netBalance,
                    lastUpdated   |-> now]
    IN  [store  |-> [s EXCEPT !.monthlySummaries = @ \cup {summary},
                              !.summaryId = @ + 1],
         result |-> summary]

\* createOrUpdateMonthlySummary: the update or the insert; its error is
\* rethrown and ends the request in the catch block of the handler
WriteSummaryStep(r) ==
    /\ requests[r].pc = "upsert.write"
    /\ \E req \in {requests[r]} :
          IF req.fault = "createOrUpdateMonthlySummary"
          THEN Advance(r, Responded(req, 500), Store)
          ELSE \E data \in {SummaryData(req)} :
               \E written \in {IF req.existing # Null
                                THEN updateSummary(Store, req.existing.id, data, clock)
                                ELSE insertSummary(Store, DemoUser, data, clock)} :
                  Advance(r, [req EXCEPT !.pc = "breakdowns.delete",
                                         !.summary = written.result],
                          written.store)

\* updateCategoryBreakdowns: the delete; with no breakdown to insert, or
\* with the error it swallows, the operation returns [] and the handler
\* sends its response
DeleteBreakdownsStep(r) ==
    /\ requests[r].pc = "breakdowns.delete"
    /\ \E req \in {requests[r]} :
          IF req.fault = "updateCategoryBreakdowns"
          THEN Advance(r, Responded(req, SuccessStatus(req.op)), Store)
          ELSE \E breakdowns \in {Breakdowns(req.txs, TotalExpenses(req.txs),
                                              categories)} :
               \E deleted \in {DeleteBreakdowns(Store, req.summary.id)} :
                  IF breakdowns = << >>
                  THEN Advance(r, Responded(req, SuccessStatus(req.op)), deleted)
                  ELSE Advance(r, At(req, "breakdowns.insert"), deleted)

\* updateCategoryBreakdowns: the insert of all new rows, and the response
InsertBreakdownsStep(r) ==
    /\ requests[r].pc = "breakdowns.insert"
    /\ \E req \in {requests[r]} :
       \E breakdowns \in {Breakdowns(req.txs, TotalExpenses(req.txs), categories)} :
       \E inserted \in {InsertBreakdowns(Store, req.summary.id, breakdowns)} :
          Advance(r, Responded(req, SuccessStatus(req.op)), inserted)

\* GET /summaries/:year/:month: storage.getMonthlySummaryByMonth
QuerySummaryStep(r) ==
    /\ requests[r].pc = "getMonthlySummaryByMonth"
    /\ \E req \in {requests[r]} :
       \E summary \in {getMonthlySummaryByMonth(Store, DemoUser, req.params.year,
                                                req.params.month)} :
          IF summary = Null THEN Advance(r, Responded(req, 404), Store)
          ELSE Advance(r, [req EXCEPT !.pc = "getCategoryBreakdowns",
                                      !.summary = summary], Store)

\* GET /summaries/:year/:month: storage.getCategoryBreakdowns(summary.id)
QueryBreakdownsStep(r) ==
    /\ requests[r].pc = "getCategoryBreakdowns"
    /\ \E req \in {requests[r]} :
          Advance(r, [Responded(req, 200) EXCEPT
                         !.answer = [summary    |-> req.summary,
                                     breakdowns |-> getCategoryBreakdowns(Store,
                                                        req.summary.id)]],
                  Store)

\* GET /transactions, /transactions/month/:year/:month, /summaries and
\* /export/:year/:month: the one query and the response
ListStep(r) ==
    LET req == requests[r] IN
    /\ req.pc \in {"getTransactions", "list.getTransactionsByMonth",
                   "getMonthlySummaries", "export.getTransactionsByMonth"}
    /\ IF /\ req.pc = "export.getTransactionsByMonth"
          /\ getTransactionsByMonth(Store, DemoUser, req.params.year,
                                    req.params.month) = {}
       THEN Advance(r, Responded(req, 404), Store)
       ELSE Advance(r, Responded(req, 200), Store)

----------------------------------------------------------------------------
(* Overlapping requests of one month: two expenses are posted and the       *)
(* summary of their month is read, in any order and with any overlap.       *)

MaxRequests == 3

\* the requests served at the same time
MaxInFlight == 2

OverlapShapes == {Shape("expense", "Food", -20000), Shape("expense", "Housing", -25000)}

OverlapRequests ==
    {Request("POST", [body |-> Body(D(2024, 3, 31), sh)], NoFault) : sh \in OverlapShapes}
        \cup {Request("GET", [year |-> 2024, month |-> 3], NoFault)}

OverlapInit == Init /\ backend = "pg" /\ tz = 0

OverlapNext ==
    \/ \E req \in OverlapRequests :
           /\ Len(requests) < MaxRequests
           /\ Cardinality(InFlight) < MaxInFlight
           /\ Arrive(req)
    \/ \E r \in DOMAIN requests : CreateTransactionStep(r)
    \/ \E r \in DOMAIN requests : ReadMonthStep(r)
    \/ \E r \in DOMAIN requests : FindSummaryStep(r)
    \/ \E r \in DOMAIN requests : WriteSummaryStep(r)
    \/ \E r \in DOMAIN requests : DeleteBreakdownsStep(r)
    \/ \E r \in DOMAIN requests : InsertBreakdownsStep(r)
    \/ \E r \in DOMAIN requests : QuerySummaryStep(r)
    \/ \E r \in DOMAIN requests : QueryBreakdownsStep(r)

OverlapSpec == OverlapInit /\ [][OverlapNext]_vars

\* no request was in flight while another one was
NoOverlap == \A r \in DOMAIN requests : requests[r].alone

\* the { summary, breakdowns } bodies that GET /summaries/{year}/{month} sent
Answers == {requests[r].answer : r \in {i \in DOMAIN requests : requests[i].answer # Null}}

\* the breakdowns of a body are those of the totals of its summary
WholeSet(answer) ==
    SumField(answer.breakdowns, "amount") = answer.summary.totalExpenses

(* C26: the breakdown set of a summary is replaced atomically: no GET       *)
(* /summaries/{year}/{month} interleaved with a recompute on the durable    *)
(* backend is answered with the new totals and the old breakdowns, or with  *)
(* the old breakdowns deleted and the new ones not yet inserted.            *)
C26_AtomicReplacement == \A answer \in Answers : WholeSet(answer)

\* C26 restricted to requests served one after the other: every body read
\* then carries the breakdowns of its totals
C26_WithoutOverlap == NoOverlap => \A answer \in Answers : WholeSet(answer)

\* all requests are answered and the transactions were all stored
Completed == requests # << >> /\ InFlight = {}

\* one summary for the month k, which says what its transactions aggregate to
OneSummaryReflects(k) ==
    MonthTx(Store, k) # {} =>
        /\ Cardinality(SummariesOf(Store, k)) = 1
        /\ \A m \in SummariesOf(Store, k) : Reflects(Store, m, MonthTx(Store, k))

(* C27: when two requests that mutate transactions of the same month        *)
(* overlap on the durable backend, interleaving at every awaited store      *)
(* call, then once both have completed the stored summary and breakdowns    *)
(* of the month equal the aggregation of the final transaction set and      *)
(* there is still exactly one summary for the key.                          *)
C27_OverlapKeepsSummary == Completed => \A k \in Months : OneSummaryReflects(k)

\* C27 restricted to requests served one after the other
C27_WithoutOverlap ==
    (Completed /\ NoOverlap) => \A k \in Months : OneSummaryReflects(k)

----------------------------------------------------------------------------
(* Every registered endpoint, on every path: requests of each endpoint,     *)
(* with bodies and parameters that pass and that fail validation, with ids  *)
(* that are and are not stored, with statements that cannot be parsed or    *)
(* hold no transaction, and with a store operation or getStorage failing.   *)
(* The database answers or rejects every query and the event loop resumes   *)
(* every handler whose query is settled: while a request is in flight,      *)
(* some request is eventually served (weak fairness of serving).  Requests  *)
(* arrive whenever they like, and an answered request stays answered, so    *)
(* the requests in flight are all answered once none is in flight.  The     *)
(* tables outlive the server: when it starts they are empty or hold what    *)
(* an earlier run stored.                                                   *)

MaxLive == 1

LiveBody == Body(D(2024, 3, 31), Shape("expense", "Food", -20000))

\* no content, content that is no PDF, a statement of two transactions and
\* one of none
LiveUploads ==
    {[pdfContent |-> FALSE, parses |-> FALSE, text |-> << >>],
     [pdfContent |-> TRUE, parses |-> FALSE, text |-> << >>],
     [pdfContent |-> TRUE, parses |-> TRUE,
      text |-> <<Line("grocery $50.00", 5000, {"grocery"}),
                 Line("rent $270.00", 27000, {"rent"})>>],
     [pdfContent |-> TRUE, parses |-> TRUE,
      text |-> <<Line("opening balance", NoAmount, {})>>]}

LiveRequests ==
    {Request("POST", [body |-> LiveBody], f) :
        f \in {NoFault, "getStorage", "createTransaction",
               "createOrUpdateMonthlySummary", "updateCategoryBreakdowns"}}
      \cup {Request("POST", [body |-> InvalidBody], NoFault)}
      \cup {Request("PUT", [id |-> 1, body |-> b], NoFault) :
               b \in {[category |-> "Housing"], [date |-> D(2024, 4, 1)], InvalidBody}}
      \cup {Request("PUT", [id |-> 1, body |-> [category |-> "Housing"]],
                    "updateTransaction")}
      \cup {Request("DELETE", [id |-> 1], f) : f \in {NoFault, "deleteTransaction"}}
      \cup {Request("UPLOAD", [upload |-> u], NoFault) : u \in LiveUploads}
      \cup {Request("UPLOAD", [upload |-> u], "createTransaction") :
               u \in {x \in LiveUploads : x.parses /\ Len(x.text) > 1}}
      \cup {Request("GET", [year |-> 2024, month |-> m], NoFault) : m \in {3, 13}}
      \cup {Request(op, [year |-> 2024, month |-> 3], NoFault) :
               op \in {"LIST", "MONTH", "SUMMARIES", "CATEGORIES", "EXPORT"}}

\* the tables after an earlier run served one POST of LiveBody
Persisted ==
    generateMonthlySummary(
        createTransaction(EmptyStore, DemoUser, Coerced(LiveBody), 0).store,
        DemoUser, 2024, 3, 0).store

LiveInit ==
    /\ backend = "pg"
    /\ tz = 0
    /\ storageInstance = 0
    /\ instances = << >>
    /\ requests = << >>
    /\ users = DemoUsers
    /\ nextUserId = DemoUser + 1
    /\ \E s \in {EmptyStore, Persisted} :
           /\ transactions = s.transactions
           /\ monthlySummaries = s.monthlySummaries
           /\ categoryBreakdowns = s.categoryBreakdowns
           /\ transactionId = s.transactionId
           /\ summaryId = s.summaryId
           /\ breakdownId = s.breakdownId
    /\ clock = 0
    /\ last = Response("none", 0, Null, Null, Null, Null)

\* one step of a request in flight, whichever query it awaits
Serve ==
    \E r \in DOMAIN requests :
       \/ CreateTransactionStep(r)
       \/ GetTransactionByIdStep(r)
       \/ UpdateTransactionStep(r)
       \/ DeleteTransactionStep(r)
       \/ ExtractStep(r)
       \/ SaveStep(r)
       \/ ReadMonthStep(r)
       \/ FindSummaryStep(r)
       \/ WriteSummaryStep(r)
       \/ DeleteBreakdownsStep(r)
       \/ InsertBreakdownsStep(r)
       \/ QuerySummaryStep(r)
       \/ QueryBreakdownsStep(r)
       \/ ListStep(r)

LiveNext ==
    \/ \E req \in LiveRequests :
           /\ Len(requests) < MaxLive
           /\ Cardinality(InFlight) < MaxInFlight
           /\ Arrive(req)
    \/ \E r \in DOMAIN requests : CreateTransactionStep(r)
    \/ \E r \in DOMAIN requests : GetTransactionByIdStep(r)
    \/ \E r \in DOMAIN requests : UpdateTransactionStep(r)
    \/ \E r \in DOMAIN requests : DeleteTransactionStep(r)
    \/ \E r \in DOMAIN requests : ExtractStep(r)
    \/ \E r \in DOMAIN requests : SaveStep(r)
    \/ \E r \in DOMAIN requests : ReadMonthStep(r)
    \/ \E r \in DOMAIN requests : FindSummaryStep(r)
    \/ \E r \in DOMAIN requests : WriteSummaryStep(r)
    \/ \E r \in DOMAIN requests : DeleteBreakdownsStep(r)
    \/ \E r \in DOMAIN requests : InsertBreakdownsStep(r)
    \/ \E r \in DOMAIN requests : QuerySummaryStep(r)
    \/ \E r \in DOMAIN requests : QueryBreakdownsStep(r)
    \/ \E r \in DOMAIN requests : ListStep(r)

LiveSpec == LiveInit /\ [][LiveNext]_vars /\ WF_vars(Serve)

\* responses sent so far: one by an answered request, none by one in flight
OneResponse(req) == req.responses = IF req.pc = "done" THEN 1 ELSE 0

(* C29: every request to a registered endpoint is eventually answered with  *)
(* exactly one HTTP response on every path (success, validation failure,    *)
(* not found, zero transactions extracted, exception thrown by the store    *)
(* or by recompute): no path ends without a response and none sends a       *)
(* second response.                                                         *)
C29_ExactlyOneResponse ==
    /\ [](\A r \in DOMAIN requests : OneResponse(requests[r]))
    /\ (InFlight # {}) ~> (InFlight = {})

\* recompute threw after the transaction was stored, and the request was
\* answered 500
C29_Witness ==
    \E r \in DOMAIN requests :
        /\ requests[r].fault = "createOrUpdateMonthlySummary"
        /\ requests[r].pc = "done" /\ requests[r].status = 500
        /\ requests[r].transaction \in transactions

\* an upload from which nothing was extracted was answered 400
C29_WitnessNothingExtracted ==
    \E r \in DOMAIN requests :
        /\ requests[r].op = "UPLOAD" /\ requests[r].params.upload.parses
        /\ requests[r].pc = "done" /\ requests[r].status = 400

\* a stored transaction was deleted, its month recomputed, the request answered
C29_WitnessSuccess ==
    \E r \in DOMAIN requests :
        /\ requests[r].op = "DELETE" /\ requests[r].key # Null
        /\ requests[r].pc = "done" /\ requests[r].status = 204

====
